---- MODULE Spec2Model ----
(***************************************************************************)
(* Reference Cache & Reversible-Mutation subsystem of photo-sorter.        *)
(*                                                                         *)
(* The module holds one state machine per component of the subsystem; the  *)
(* components share the variables and each has its own specification:      *)
(*   SpecSched  the debounced rebuild scheduler of ImageRangerGUI          *)
(***************************************************************************)
EXTENDS Integers, Sequences, FiniteSets, TLC

(***************************************************************************)
(* Bounds of the model.                                                    *)
(***************************************************************************)
\* longest burst of rebuild requests inside one debounce window
MaxBurst == 3
\* most rebuild jobs (running or about to be started by a pending timer)
MaxJobs == 2

(***************************************************************************)
(* Values.                                                                 *)
(***************************************************************************)
Labels == {"Alice", "Bob", "Carol"}
\* Python's None
None == "None"
LabelOrNone == Labels \cup {None}

VARIABLES
    \* ---- rebuild scheduler (ImageRangerGUI) ----
    variant,             \* which ImageRangerGUI the build holds: "labeler" | "ranger"
    afterQueue,          \* Tk's pending root.after callbacks: records [id, cb, ol]
    rebuild_after_id,    \* self._rebuild_after_id   (0 is None)
    rebuild_last_label,  \* self._rebuild_last_label
    rebuild_pending,     \* self._rebuild_pending    (0 is None)
    cancel_event,        \* self._cancel_event.is_set()
    is_closing,          \* self._is_closing
    is_busy,             \* self._is_busy
    jobs,                \* running rebuild threads: records [jid, scope]
    doneQueue,           \* _done callbacks posted with root.after(0, _done)
    \* ---- history of the current coalescing window (not program state) ----
    burst,               \* labels requested since the timer was last idle
    burstJobs,           \* scopes of the jobs the window's timers started
    \* ---- Reference Store and reference files ----
    refs,                \* rows of the Reference Store: records [label, path]
    files,               \* reference files on disk: path -> image content
    \* ---- embedding cache (photo_sorter) ----
    ref_embeddings,      \* the global ref_embeddings: label -> mean vector
    lastBuild,           \* the last rebuild call: [op, labels, app_ok, changed]
    \* ---- reversible mutations (ReferenceBrowser, UndoStack) ----
    send2trash,          \* whether the send2trash package was imported
    undo_stack,          \* UndoStack._stack
    lastAction,          \* the last destructive action or Revert, and what it did
    label_records,       \* reference_db's label records: label -> folder
    trash_folders,       \* label folders moved to .trash: folder -> the files in it
    \* ---- thumbnail cache (ImageRangerGUI) ----
    thumb_cache,         \* _thumb_cache: entries [key, est], oldest first
    thumb_cache_est_bytes, \* _thumb_cache_est_bytes
    thumb_size,          \* main_thumb_size and ref_thumb_size
    last_zoom,           \* _last_main_zoom and _last_ref_zoom
    accessOrder,         \* the cached keys by their last load_thumb, oldest first
    thumbHits,           \* the cached keys whose last load_thumb was a hit
    lastThumbOp,         \* the last cache operation and what it evicted
    \* ---- distribution of sorted photos (photo_sorter) ----
    folders,             \* the inbox and output folders: path -> photo held
    lastDist,            \* the last distribute_to_labels call and its faults
    \* ---- matching (photo_sorter.identify_faces) ----
    thresholds,          \* reference_db: label -> threshold, in hundredths
    faces_in,            \* the faces app.get found in the image at hand
    lastMatch,           \* what identify_faces returned for them
    \* ---- the sort worker (photo_sorter, ImageRangerGUI.start_sort_flow) ----
    sorter,              \* where the worker is: [pc, walk, files, cur, mode, best, pending]
    stop_event,          \* sort_stop_event.is_set()
    sort_outcome,        \* what the worker logged when the sort ended
    stopNote,            \* the file in flight when the stop was set, and what came after
    match_log,           \* the rows log_match_result has appended: [file, label, score, mode]
    \* ---- a rebuild in flight and a reader of the cache (photo_sorter) ----
    builder,             \* where the rebuild thread is: [pc, scope, todo, swapped, pre, tmp]
    lastRead,            \* the reader's last ref_embeddings lookup and its context
    \* ---- the grid's thumbnail job and the module-level thumbnail cache ----
    _THUMB_CACHE,        \* the keys of the dict _THUMB_CACHE
    _THUMB_CACHE_ORDER,  \* the list _THUMB_CACHE_ORDER, oldest first
    thumb_queue,         \* self._thumb_queue: the paths decoded and waiting for the UI
    producer,            \* the producer thread inside _thumbcache_get: [pc, key, todo]
    putter,              \* the UI thread inside _thumbcache_put: [pc, key]
    \* ---- the two collision-free namers, side by side ----
    lastNames,           \* a folder listing, a file name and what each namer returned
    \* ---- an UndoStack on its own, its records numbered as they are pushed ----
    probe                \* [file, stack, pushed, pops, got]: file is the module whose
                         \* UndoStack it is, got is what the last pop returned

schedVars == <<variant, afterQueue, rebuild_after_id, rebuild_last_label,
               rebuild_pending, cancel_event, is_closing, is_busy, jobs,
               doneQueue, burst, burstJobs>>

storeVars == <<refs, files>>
cacheVars == <<ref_embeddings, lastBuild>>

undoVars == <<send2trash, undo_stack, lastAction, label_records, trash_folders>>

thumbVars == <<thumb_cache, thumb_cache_est_bytes, thumb_size, last_zoom,
               accessOrder, thumbHits, lastThumbOp>>

sortVars == <<folders, lastDist>>

matchVars == <<thresholds, faces_in, lastMatch>>

runVars == <<sorter, stop_event, sort_outcome, stopNote, match_log>>

swapVars == <<builder, lastRead>>

jobVars == <<_THUMB_CACHE, _THUMB_CACHE_ORDER, thumb_queue, producer, putter>>

nameVars == <<lastNames>>

stackVars == <<probe>>

vars == <<schedVars, storeVars, cacheVars, undoVars, thumbVars, sortVars, matchVars,
          runVars, swapVars, jobVars, nameVars, stackVars>>

\* what each component leaves alone
nonSchedVars == <<storeVars, cacheVars, undoVars, thumbVars, sortVars, matchVars, runVars, swapVars, jobVars, nameVars, stackVars>>
nonCacheVars == <<schedVars, undoVars, thumbVars, sortVars, matchVars, runVars, swapVars, jobVars, nameVars, stackVars>>
nonUndoVars == <<schedVars, cacheVars, thumbVars, sortVars, matchVars, runVars, swapVars, jobVars, nameVars, stackVars>>
nonThumbVars == <<schedVars, storeVars, cacheVars, undoVars, sortVars, matchVars, runVars, swapVars, jobVars, nameVars, stackVars>>
nonSortVars == <<schedVars, storeVars, cacheVars, undoVars, thumbVars, matchVars, runVars, swapVars, jobVars, nameVars, stackVars>>
nonRunVars == <<schedVars, storeVars, cacheVars, undoVars, thumbVars, matchVars, swapVars, jobVars, nameVars, stackVars>>
nonSwapVars == <<schedVars, undoVars, thumbVars, sortVars, matchVars, runVars, jobVars, nameVars, stackVars>>
nonJobVars == <<schedVars, storeVars, cacheVars, undoVars, thumbVars, sortVars, matchVars, runVars, swapVars, nameVars, stackVars>>
nonNameVars == <<schedVars, storeVars, cacheVars, undoVars, thumbVars, sortVars, matchVars, runVars, swapVars, jobVars, stackVars>>
nonStackVars == <<schedVars, storeVars, cacheVars, undoVars, thumbVars, sortVars, matchVars, runVars, swapVars, jobVars, nameVars>>
nonLabelVars == <<schedVars, cacheVars, thumbVars, sortVars, runVars, swapVars, jobVars, nameVars, stackVars>>
nonMatchVars == <<schedVars, storeVars, cacheVars, undoVars, thumbVars, sortVars, runVars, swapVars, jobVars, nameVars, stackVars>>

(***************************************************************************)
(* Rebuild scheduler.                                                      *)
(***************************************************************************)
TimerIds == 1 .. (MaxBurst + 1)
JobIds == 1 .. (MaxJobs + MaxBurst + 1)

\* root.after(...) returns a handle no pending callback has
FreshTimer == CHOOSE i \in TimerIds : \A t \in afterQueue : t.id # i
FreshJob == CHOOSE i \in JobIds : \A j \in jobs : j.jid # i

\* root.after_cancel(id): the callback with that handle is dropped
after_cancel(q, id) == {t \in q : t.id # id}

\* (only_label or "").strip() or None : the empty label is None
NormLabel(only_label) == IF only_label = "" THEN None ELSE only_label

\* the labels a job of a given scope recomputes (_rebuild_do._runner):
\* a label -> build_reference_embeddings_for_labels([label]); None -> full
RecomputedBy(scope) == IF scope # None THEN {scope} ELSE Labels

\* bookkeeping of the coalescing window at a request
NoteRequest(only_label) ==
    IF afterQueue = {}
    THEN /\ burst' = <<only_label>>
         /\ burstJobs' = <<>>
    ELSE /\ burst' = Append(burst, only_label)
         /\ UNCHANGED burstJobs

\* a request is taken while the window and the number of jobs are in bounds
CanRequest ==
    /\ ~is_closing
    /\ afterQueue = {} => Cardinality(jobs) + doneQueue < MaxJobs
    /\ afterQueue # {} => Len(burst) < MaxBurst

\* (mutant) the pending callback is not cancelled before the new one is armed
RearmCoalesced_NoCancel(q, id) ==
    q \cup {[id |-> FreshTimer, cb |-> "coalesced", ol |-> None]}

\* the timer handling of schedule_rebuild_embeddings: cancel the pending
\* callback, arm a new one
RearmCoalesced(q, id) ==
    (IF id # 0 THEN after_cancel(q, id) ELSE q)
        \cup {[id |-> FreshTimer, cb |-> "coalesced", ol |-> None]}

\* gui_reference_labeler.py.py: schedule_rebuild_embeddings(only_label, 400)
schedule_rebuild_embeddings(only_label) ==
    /\ variant = "labeler"
    /\ CanRequest
    /\ rebuild_last_label' = NormLabel(only_label)
    /\ afterQueue' = RearmCoalesced(afterQueue, rebuild_after_id)
    /\ rebuild_after_id' = FreshTimer
    /\ NoteRequest(NormLabel(only_label))
    /\ UNCHANGED <<variant, rebuild_pending, cancel_event, is_closing, is_busy,
                   jobs, doneQueue>>
    /\ UNCHANGED nonSchedVars

\* (mutant) the job is started for all labels, whatever was asked
StartJobLabeler_AllLabels(only_label) ==
    IF cancel_event
    THEN UNCHANGED <<is_busy, jobs>>
    ELSE /\ is_busy' = TRUE
         /\ jobs' = jobs \cup {[jid |-> FreshJob, scope |-> None]}

\* the thread start of rebuild_embeddings_async (labeler): returns at once
\* when the cancel event is set, else begin_busy and one more running job
StartJobLabeler(only_label) ==
    IF cancel_event
    THEN UNCHANGED <<is_busy, jobs>>
    ELSE /\ is_busy' = TRUE
         /\ jobs' = jobs \cup {[jid |-> FreshJob, scope |-> only_label]}

\* gui_reference_labeler.py.py: _run_rebuild_coalesced, the timer callback
run_rebuild_coalesced(t) ==
    /\ t \in afterQueue
    /\ t.cb = "coalesced"
    /\ afterQueue' = afterQueue \ {t}
    /\ rebuild_after_id' = 0
    /\ rebuild_last_label' = None
    /\ StartJobLabeler(rebuild_last_label)
    /\ burstJobs' = IF cancel_event THEN burstJobs
                    ELSE Append(burstJobs, rebuild_last_label)
    /\ UNCHANGED <<variant, rebuild_pending, cancel_event, is_closing, doneQueue,
                   burst>>
    /\ UNCHANGED nonSchedVars

\* gui_reference_labeler.py.py: rebuild_embeddings_async called directly
\* (Tools menu, rename_label, add_selected_to_reference): no debounce
rebuild_embeddings_async(only_label) ==
    /\ variant = "labeler"
    /\ ~is_closing
    /\ Cardinality(jobs) + Cardinality(afterQueue) + doneQueue < MaxJobs
    /\ StartJobLabeler(only_label)
    /\ UNCHANGED <<variant, afterQueue, rebuild_after_id, rebuild_last_label,
                   rebuild_pending, cancel_event, is_closing, doneQueue, burst,
                   burstJobs>>
    /\ UNCHANGED nonSchedVars

\* (mutant) the pending callback is left armed next to the new one
RearmDo_NoCancel(q, id, only_label) ==
    q \cup {[id |-> FreshTimer, cb |-> "do", ol |-> only_label]}

\* the timer handling of the debounced rebuild_embeddings_async (ranger)
RearmDo(q, id, only_label) ==
    (IF id # 0 THEN after_cancel(q, id) ELSE q)
        \cup {[id |-> FreshTimer, cb |-> "do", ol |-> only_label]}

\* ImageRangerGUI.py: rebuild_embeddings_async(only_label), 200 ms debounce
rebuild_embeddings_async_debounced(only_label) ==
    /\ variant = "ranger"
    /\ CanRequest
    /\ afterQueue' = RearmDo(afterQueue, rebuild_pending, only_label)
    /\ rebuild_pending' = FreshTimer
    /\ NoteRequest(IF only_label = "" THEN None ELSE only_label)
    /\ UNCHANGED <<variant, rebuild_after_id, rebuild_last_label, cancel_event,
                   is_closing, is_busy, jobs, doneQueue>>
    /\ UNCHANGED nonSchedVars

\* ImageRangerGUI.py: _rebuild_do(only_label), the timer callback: clears the
\* pending handle and starts the worker thread, whatever is running
rebuild_do(t) ==
    /\ t \in afterQueue
    /\ t.cb = "do"
    /\ afterQueue' = afterQueue \ {t}
    /\ rebuild_pending' = 0
    /\ jobs' = jobs \cup {[jid |-> FreshJob,
                           scope |-> IF t.ol = "" THEN None ELSE t.ol]}
    /\ burstJobs' = Append(burstJobs, IF t.ol = "" THEN None ELSE t.ol)
    /\ UNCHANGED <<variant, rebuild_after_id, rebuild_last_label, cancel_event,
                   is_closing, is_busy, doneQueue, burst>>
    /\ UNCHANGED nonSchedVars

\* (mutant) the thread ends without posting _done
job_done_NoPost(j) ==
    /\ j \in jobs
    /\ jobs' = jobs \ {j}
    /\ UNCHANGED <<variant, afterQueue, rebuild_after_id, rebuild_last_label,
                   rebuild_pending, cancel_event, is_closing, is_busy, burst,
                   burstJobs, doneQueue>>
    /\ UNCHANGED nonSchedVars

\* a worker thread returns; the labeler's job posts _done to the UI thread
\* (root.after(0, _done); the post fails silently once the root is destroyed)
job_done(j) ==
    /\ j \in jobs
    /\ jobs' = jobs \ {j}
    /\ doneQueue' = IF variant = "labeler" /\ ~is_closing THEN doneQueue + 1
                    ELSE doneQueue
    /\ UNCHANGED <<variant, afterQueue, rebuild_after_id, rebuild_last_label,
                   rebuild_pending, cancel_event, is_closing, is_busy, burst,
                   burstJobs>>
    /\ UNCHANGED nonSchedVars

\* gui_reference_labeler.py.py: _done -> end_busy
end_busy ==
    /\ doneQueue > 0
    /\ doneQueue' = doneQueue - 1
    /\ is_busy' = FALSE
    /\ UNCHANGED <<variant, afterQueue, rebuild_after_id, rebuild_last_label,
                   rebuild_pending, cancel_event, is_closing, jobs, burst,
                   burstJobs>>
    /\ UNCHANGED nonSchedVars

\* gui_reference_labeler.py.py: on_close sets the cancel event and destroys
\* the root window, and with it every pending callback
on_close ==
    /\ variant = "labeler"
    /\ ~is_closing
    /\ is_closing' = TRUE
    /\ cancel_event' = TRUE
    /\ afterQueue' = {}
    /\ doneQueue' = 0
    /\ UNCHANGED <<variant, rebuild_after_id, rebuild_last_label, rebuild_pending,
                   is_busy, jobs, burst, burstJobs>>
    /\ UNCHANGED nonSchedVars

(***************************************************************************)
(* Reference Store and reference files.                                    *)
(***************************************************************************)
\* a file path: folder, base name, collision suffix (0: none)
Path(dir, name, n) == [dir |-> dir, name |-> name, n |-> n]

\* what app.get(cv2.imdecode(file)) yields for the images of the model:
\* the face embeddings found (one number stands for a vector), or unreadable
Contents == {"one_face", "two_faces", "other_face", "no_face", "unreadable"}
Readable(c) == c # "unreadable"
Faces(c) ==
    CASE c = "one_face" -> <<2>>
      [] c = "two_faces" -> <<4, 12>>
      [] c = "other_face" -> <<6>>
      [] OTHER -> <<>>

\* the reference images the user has labelled, each in its label's folder
InitialFiles ==
    (Path("Alice", "p", 0) :> "one_face") @@ (Path("Alice", "q", 0) :> "two_faces")
    @@ (Path("Bob", "p", 0) :> "other_face") @@ (Path("Bob", "q", 0) :> "unreadable")
    @@ (Path("Carol", "p", 0) :> "no_face")

Row(label, path) == [label |-> label, path |-> path]

\* reference_db.get_all_references, by label
PathsOf(rows, lbl) == {r.path : r \in {x \in rows : x.label = lbl}}

\* reference_db.purge_missing_references: rows whose file is gone are dropped
purge_missing_references(rows, disk) == {r \in rows : r.path \in DOMAIN disk}

\* reference_db.delete_reference(path)
delete_reference(rows, path) == {r \in rows : r.path # path}

\* reference_db.insert_reference(path, label)
insert_reference(rows, path, label) ==
    {r \in rows : r.path # path} \cup {Row(label, path)}

StoreInit ==
    /\ files = InitialFiles
    /\ refs = {Row(p.dir, p) : p \in DOMAIN InitialFiles}

(***************************************************************************)
(* Embedding cache: photo_sorter's rebuilds.  Vectors are exact rationals  *)
(* <<numerator, denominator>> in lowest terms.                             *)
(***************************************************************************)
RECURSIVE Gcd(_, _)
Gcd(a, b) == IF b = 0 THEN a ELSE Gcd(b, a % b)

Frac(n, d) == <<n \div Gcd(n, d), d \div Gcd(n, d)>>

RECURSIVE SumInts(_)
SumInts(seq) == IF seq = <<>> THEN 0 ELSE Head(seq) + SumInts(Tail(seq))

\* (mutant) an image contributes the sum of its face embeddings
MeanOfFaces_Sum(seq) == Frac(SumInts(seq), 1)

\* np.mean(vecs, axis=0) over the face embeddings of one image
MeanOfFaces(seq) == Frac(SumInts(seq), Len(seq))

FracAdd(x, y) == Frac(x[1] * y[2] + y[1] * x[2], x[2] * y[2])

RECURSIVE SumFracs(_)
SumFracs(seq) ==
    IF seq = <<>> THEN <<0, 1>> ELSE FracAdd(Head(seq), SumFracs(Tail(seq)))

\* np.mean(embeddings, axis=0) over the per-image vectors of one label
MeanOfImages(seq) ==
    LET t == SumFracs(seq) IN Frac(t[1], t[2] * Len(seq))

\* the rows of a label in the order the store lists them
RECURSIVE SeqOf(_)
SeqOf(S) ==
    IF S = {} THEN <<>>
    ELSE LET x == CHOOSE y \in S : TRUE IN <<x>> \o SeqOf(S \ {x})

\* (mutant) the first reference that cannot be embedded ends the loop
RECURSIVE EmbedPaths_StopAtInvalid(_, _)
EmbedPaths_StopAtInvalid(paths, disk) ==
    IF paths = <<>> THEN <<>>
    ELSE LET p == Head(paths)
         IN  IF p \notin DOMAIN disk THEN <<>>
             ELSE IF ~Readable(disk[p]) THEN <<>>
             ELSE IF Faces(disk[p]) = <<>> THEN <<>>
             ELSE <<MeanOfFaces(Faces(disk[p]))>>
                      \o EmbedPaths_StopAtInvalid(Tail(paths), disk)

\* the inner loop: one vector per reference image that is a file, decodes
\* and shows a face; the others are logged and skipped
RECURSIVE EmbedPaths(_, _)
EmbedPaths(paths, disk) ==
    IF paths = <<>> THEN <<>>
    ELSE LET p == Head(paths)
             rest == EmbedPaths(Tail(paths), disk)
         IN  IF p \notin DOMAIN disk THEN rest
             ELSE IF ~Readable(disk[p]) THEN rest
             ELSE IF Faces(disk[p]) = <<>> THEN rest
             ELSE <<MeanOfFaces(Faces(disk[p]))>> \o rest

\* the dict ref_embeddings
EmptyCache == [l \in {} |-> <<0, 1>>]
\* ref_embeddings.get(l); <<0, 0>> stands for no entry
Entry(cache, l) == IF l \in DOMAIN cache THEN cache[l] ELSE <<0, 0>>
Put(cache, l, v) == [x \in DOMAIN cache \cup {l} |-> IF x = l THEN v ELSE cache[x]]
Del(cache, l) == [x \in DOMAIN cache \ {l} |-> cache[x]]

\* (mutant) the recomputed label replaces the whole cache
RebuildLabel_Alone(cache, rows, disk, lbl) ==
    LET embeddings == EmbedPaths(SeqOf(PathsOf(rows, lbl)), disk)
    IN  IF embeddings # <<>> THEN Put(EmptyCache, lbl, MeanOfImages(embeddings))
        ELSE EmptyCache

\* (mutant) a label left without a valid embedding keeps its old vector
RebuildLabel_KeepStale(cache, rows, disk, lbl) ==
    LET paths == PathsOf(rows, lbl)
        embeddings == EmbedPaths(SeqOf(paths), disk)
    IN  IF embeddings # <<>> THEN Put(cache, lbl, MeanOfImages(embeddings))
        ELSE cache

\* build_reference_embeddings_for_labels: the body of "for lbl in target"
RebuildLabel(cache, rows, disk, lbl) ==
    LET paths == PathsOf(rows, lbl)
        embeddings == EmbedPaths(SeqOf(paths), disk)
    IN  IF paths = {} THEN Del(cache, lbl)
        ELSE IF embeddings # <<>> THEN Put(cache, lbl, MeanOfImages(embeddings))
        ELSE Del(cache, lbl)

\* build_reference_embeddings_for_labels: "for lbl in target"
RECURSIVE RebuildLabels(_, _, _, _)
RebuildLabels(cache, rows, disk, target) ==
    IF target = {} THEN cache
    ELSE LET lbl == CHOOSE l \in target : TRUE
         IN  RebuildLabels(RebuildLabel(cache, rows, disk, lbl), rows, disk,
                           target \ {lbl})

\* build_reference_embeddings_for_labels(db_path, model_dir, labels):
\* app_ok says whether get_buffalo_model returned a model
build_reference_embeddings_for_labels(labels, app_ok) ==
    /\ refs' = purge_missing_references(refs, files)
    /\ ref_embeddings' =
          IF ~app_ok THEN ref_embeddings
          ELSE IF labels = {} THEN ref_embeddings
          ELSE RebuildLabels(ref_embeddings, refs', files, labels)
    /\ lastBuild' = [op |-> "for_labels", labels |-> labels, app_ok |-> app_ok,
                     changed |-> ref_embeddings' # ref_embeddings]
    /\ UNCHANGED files
    /\ UNCHANGED nonCacheVars

\* build_reference_embeddings_from_db: "for label, vecs in tmp.items()"
RECURSIVE PublishAll(_, _, _, _)
PublishAll(cache, rows, disk, todo) ==
    IF todo = {} THEN cache
    ELSE LET lbl == CHOOSE l \in todo : TRUE
             vecs == EmbedPaths(SeqOf(PathsOf(rows, lbl)), disk)
             next == IF vecs # <<>> THEN Put(cache, lbl, MeanOfImages(vecs))
                     ELSE cache
         IN  PublishAll(next, rows, disk, todo \ {lbl})

\* build_reference_embeddings_from_db(db_path, model_dir, log_callback):
\* the cache is cleared before anything else
build_reference_embeddings_from_db(app_ok) ==
    /\ refs' = purge_missing_references(refs, files)
    /\ ref_embeddings' =
          IF ~app_ok THEN EmptyCache
          ELSE IF refs' = {} THEN EmptyCache
          ELSE PublishAll(EmptyCache, refs', files, {r.label : r \in refs'})
    /\ lastBuild' = [op |-> "from_db", labels |-> Labels, app_ok |-> app_ok,
                     changed |-> ref_embeddings' # ref_embeddings]
    /\ UNCHANGED files
    /\ UNCHANGED nonCacheVars

\* no rebuild call since the store or the disk last changed
NoBuild == [op |-> "none", labels |-> {}, app_ok |-> TRUE, changed |-> FALSE]

\* a reference file disappears from disk outside the program
FileGoesMissing(p) ==
    /\ p \in DOMAIN files
    /\ files' = [x \in DOMAIN files \ {p} |-> files[x]]
    /\ lastBuild' = NoBuild
    /\ UNCHANGED <<refs, ref_embeddings>>
    /\ UNCHANGED nonCacheVars

\* the user removes a reference row (reference_db.delete_reference)
RowDeleted(p) ==
    /\ \E r \in refs : r.path = p
    /\ refs' = delete_reference(refs, p)
    /\ lastBuild' = NoBuild
    /\ UNCHANGED <<files, ref_embeddings>>
    /\ UNCHANGED nonCacheVars

CacheInit ==
    /\ ref_embeddings = EmptyCache
    /\ lastBuild = NoBuild

NextCache ==
    \/ \E L \in SUBSET Labels, ok \in BOOLEAN :
          build_reference_embeddings_for_labels(L, ok)
    \/ \E ok \in BOOLEAN : build_reference_embeddings_from_db(ok)
    \/ \E p \in DOMAIN files : FileGoesMissing(p)
    \/ \E p \in DOMAIN InitialFiles : RowDeleted(p)

(***************************************************************************)
(* A rebuild in flight, statement by statement, and a reader of the cache. *)
(* The rebuild runs in the scheduler's worker thread, identify_faces in    *)
(* the sort's worker thread; a dict lookup, store, delete or clear is one  *)
(* step.                                                                   *)
(***************************************************************************)
BuilderIdle == [pc |-> "idle", scope |-> "none", todo |-> {}, swapped |-> {},
                pre |-> EmptyCache, tmp |-> EmptyCache]

\* no lookup since the rebuild in flight started
NoRead == [label |-> None, value |-> <<0, 0>>, scope |-> "none", swapped |-> FALSE,
           pre |-> <<0, 0>>]

\* build_reference_embeddings_from_db enters: ref_embeddings.clear()
from_db_clear ==
    /\ builder.pc = "idle"
    /\ builder' = [pc |-> "load", scope |-> "from_db", todo |-> Labels,
                   swapped |-> {}, pre |-> ref_embeddings, tmp |-> EmptyCache]
    /\ ref_embeddings' = EmptyCache
    /\ lastBuild' = NoBuild
    /\ lastRead' = NoRead
    /\ UNCHANGED storeVars
    /\ UNCHANGED nonSwapVars

\* build_reference_embeddings_for_labels enters with its labels
for_labels_enter(labels) ==
    /\ builder.pc = "idle"
    /\ builder' = [pc |-> "load", scope |-> "for_labels", todo |-> labels,
                   swapped |-> {}, pre |-> ref_embeddings, tmp |-> EmptyCache]
    /\ lastBuild' = NoBuild
    /\ lastRead' = NoRead
    /\ UNCHANGED <<storeVars, ref_embeddings>>
    /\ UNCHANGED nonSwapVars

\* build_reference_embeddings_from_db: tmp after "for _id, label, img_path
\* in references", as the mean each label will be given
Embedded(rows, disk) ==
    [l \in {x \in {r.label : r \in rows} : EmbedPaths(SeqOf(PathsOf(rows, x)), disk) # <<>>}
        |-> MeanOfImages(EmbedPaths(SeqOf(PathsOf(rows, l)), disk))]

\* either rebuild: purge_missing_references, get_buffalo_model,
\* get_all_references and the early returns; the full rebuild's embedding
\* loop, which writes nothing shared, is part of this step
rebuild_load(app_ok) ==
    /\ builder.pc = "load"
    /\ refs' = purge_missing_references(refs, files)
    /\ builder' =
          IF ~app_ok THEN BuilderIdle
          ELSE IF builder.scope = "from_db" /\ refs' = {} THEN BuilderIdle
          ELSE IF builder.scope = "for_labels" /\ builder.todo = {} THEN BuilderIdle
          ELSE IF builder.scope = "from_db"
               THEN [builder EXCEPT !.pc = "loop", !.todo = DOMAIN Embedded(refs', files),
                                    !.tmp = Embedded(refs', files)]
               ELSE [builder EXCEPT !.pc = "loop"]
    /\ UNCHANGED <<files, cacheVars, lastRead>>
    /\ UNCHANGED nonSwapVars

\* build_reference_embeddings_for_labels: one pass of "for lbl in target"
for_labels_swap(lbl) ==
    /\ builder.pc = "loop" /\ builder.scope = "for_labels"
    /\ lbl \in builder.todo
    /\ ref_embeddings' = RebuildLabel(ref_embeddings, refs, files, lbl)
    /\ builder' = [builder EXCEPT !.todo = @ \ {lbl}, !.swapped = @ \cup {lbl}]
    /\ UNCHANGED <<storeVars, lastBuild, lastRead>>
    /\ UNCHANGED nonSwapVars

\* build_reference_embeddings_from_db: one pass of "for label, vecs in
\* tmp.items()", tmp holding the labels that got a vector
from_db_swap(lbl) ==
    /\ builder.pc = "loop" /\ builder.scope = "from_db"
    /\ lbl \in builder.todo
    /\ ref_embeddings' = Put(ref_embeddings, lbl, builder.tmp[lbl])
    /\ builder' = [builder EXCEPT !.todo = @ \ {lbl}, !.swapped = @ \cup {lbl}]
    /\ UNCHANGED <<storeVars, lastBuild, lastRead>>
    /\ UNCHANGED nonSwapVars

\* either rebuild returns after its loop
rebuild_return ==
    /\ builder.pc = "loop" /\ builder.todo = {}
    /\ builder' = BuilderIdle
    /\ UNCHANGED <<storeVars, cacheVars, lastRead>>
    /\ UNCHANGED nonSwapVars

\* identify_faces looks a label up in ref_embeddings while a rebuild is in
\* flight; <<0, 0>>: no entry
read_entry(l) ==
    /\ builder.pc # "idle"
    /\ lastRead' = [label |-> l, value |-> Entry(ref_embeddings, l),
                    scope |-> builder.scope, swapped |-> l \in builder.swapped,
                    pre |-> Entry(builder.pre, l)]
    /\ UNCHANGED <<storeVars, cacheVars, builder>>
    /\ UNCHANGED nonSwapVars

SwapInit ==
    /\ builder = BuilderIdle
    /\ lastRead = NoRead

NextSwap ==
    \/ from_db_clear
    \/ \E L \in SUBSET Labels : for_labels_enter(L)
    \/ \E ok \in BOOLEAN : rebuild_load(ok)
    \/ \E l \in Labels : for_labels_swap(l)
    \/ \E l \in Labels : from_db_swap(l)
    \/ rebuild_return
    \/ \E l \in Labels : read_entry(l)
    \/ builder.pc = "idle" /\ \E p \in DOMAIN files : FileGoesMissing(p)

(***************************************************************************)
(* Reversible mutations: soft delete, undo stack, Revert.                  *)
(***************************************************************************)
UndoLimit == 50

\* what _trash_move_file reports besides a backup path
NoPath == Path("", "", 0)
RecycleDetail == Path("recycle", "", 0)
ErrorDetail == Path("error", "", 0)
NotFoundDetail == Path("not-found", "", 0)

\* shutil.move(src, dst) of a file
Move(disk, src, dst) ==
    [x \in (DOMAIN disk \ {src}) \cup {dst} |-> IF x = dst THEN disk[src] ELSE disk[x]]

Remove(disk, p) == [x \in DOMAIN disk \ {p} |-> disk[x]]

\* _unique_path(dest_dir, name): name, else name-1, name-2, ...
_unique_path(disk, dest_dir, name) ==
    IF Path(dest_dir, name, 0) \notin DOMAIN disk THEN Path(dest_dir, name, 0)
    ELSE Path(dest_dir, name,
              CHOOSE i \in 1 .. (Cardinality(DOMAIN disk) + 1) :
                  /\ Path(dest_dir, name, i) \notin DOMAIN disk
                  /\ \A j \in 1 .. (i - 1) : Path(dest_dir, name, j) \in DOMAIN disk)

\* _trash_move_file(file_path) -> (ok, detail), with the disk it leaves;
\* raises says whether send2trash or shutil.move raised
_trash_move_file(disk, p, raises) ==
    IF p \notin DOMAIN disk
    THEN [ok |-> FALSE, detail |-> NotFoundDetail, disk |-> disk]
    ELSE IF raises
    THEN [ok |-> FALSE, detail |-> ErrorDetail, disk |-> disk]
    ELSE IF send2trash
    THEN [ok |-> TRUE, detail |-> RecycleDetail, disk |-> Remove(disk, p)]
    ELSE LET dest == _unique_path(disk, ".trash", p.name)
         IN  [ok |-> TRUE, detail |-> dest, disk |-> Move(disk, p, dest)]

\* delete_selected_refs: the body of "for (_id, lbl, path) in entries" for one
\* selected row of the label; st is [disk, rows, items]
DeleteOne(st, path, raises) ==
    LET tm == IF path \in DOMAIN st.disk
              THEN _trash_move_file(st.disk, path, raises)
              ELSE [ok |-> FALSE, detail |-> NoPath, disk |-> st.disk]
        restore_hint == IF tm.ok /\ tm.detail \notin {NoPath, RecycleDetail}
                        THEN tm.detail ELSE NoPath
    IN  [disk |-> tm.disk,
         rows |-> delete_reference(st.rows, path),
         items |-> IF restore_hint # NoPath
                   THEN Append(st.items, [backup_path |-> restore_hint,
                                          original_path |-> path])
                   ELSE st.items]

RECURSIVE DeleteLoop(_, _, _)
DeleteLoop(st, todo, failing) ==
    IF todo = <<>> THEN st
    ELSE DeleteLoop(DeleteOne(st, Head(todo), Head(todo) \in failing),
                    Tail(todo), failing)

\* the rebuild request that ends delete_selected_refs and the delete_refs
\* branch of undo_last.  The ranger calls rebuild_embeddings_async(only_label).
\* The labeler's ReferenceBrowser has no schedule_rebuild_embeddings, and its
\* undo_last reads reference_browser.label_filter, which the SimpleNamespace
\* shim does not have, before it reaches the request: both raise
\* AttributeError and nothing is requested.
RequestedBy(label) == IF variant = "ranger" THEN <<label>> ELSE <<>>

(***************************************************************************)
(* UndoStack on its own: records are numbered in the order of their push,  *)
(* 0 stands for None.                                                      *)
(***************************************************************************)
\* pushes and pops explored
MaxPushes == 51
MaxPops == 2

\* (mutant) the newest record is dropped when the limit is exceeded
push_DropNewest(stack, action) ==
    IF Len(stack) + 1 > UndoLimit THEN stack ELSE Append(stack, action)

\* UndoStack.push
push(stack, action) ==
    IF Len(stack) + 1 > UndoLimit THEN Tail(Append(stack, action))
    ELSE Append(stack, action)

\* UndoStack.push of gui_reference_labeler.py, which has no limit
push_append(stack, action) == Append(stack, action)

\* the modules that define an UndoStack
StackFiles == {"gui_reference_labeler.py.py", "gui_reference_labeler.py"}

\* UndoStack.pop: "return self._stack.pop() if self._stack else None"; the
\* one of gui_reference_labeler.py logs "Nothing to undo" before it returns
\* None
pop(stack) ==
    IF stack = <<>> THEN [item |-> 0, stack |-> stack]
    ELSE [item |-> stack[Len(stack)], stack |-> SubSeq(stack, 1, Len(stack) - 1)]

\* undo_stack.push(record)
stack_push ==
    /\ probe.pushed < MaxPushes
    /\ probe' = [probe EXCEPT !.stack = IF probe.file = "gui_reference_labeler.py.py"
                                         THEN push(probe.stack, probe.pushed + 1)
                                         ELSE push_append(probe.stack, probe.pushed + 1),
                              !.pushed = probe.pushed + 1]
    /\ UNCHANGED nonStackVars

\* undo_stack.pop()
stack_pop ==
    /\ probe.pops < MaxPops
    /\ probe' = [probe EXCEPT !.stack = pop(probe.stack).stack,
                              !.got = pop(probe.stack).item,
                              !.pops = probe.pops + 1]
    /\ UNCHANGED nonStackVars

StackInit ==
    \E f \in StackFiles :
        probe = [file |-> f, stack |-> <<>>, pushed |-> 0, pops |-> 0, got |-> 0]

NextStack == stack_push \/ stack_pop

\* ReferenceBrowser.delete_selected_refs, confirmed by the user: label is the
\* label filter, targets the selected paths, failing the files whose
\* soft-delete raises
delete_selected_refs(label, targets, failing) ==
    /\ targets # {}
    /\ targets \subseteq PathsOf(refs, label)
    /\ failing \subseteq (targets \cap DOMAIN files)
    /\ LET done == DeleteLoop([disk |-> files, rows |-> refs, items |-> <<>>],
                              SeqOf(targets), failing)
       IN  /\ files' = done.disk
           /\ refs' = done.rows
           /\ undo_stack' =
                 IF done.items # <<>>
                 THEN push(undo_stack, [type |-> "delete_refs", label |-> label,
                                        items |-> done.items])
                 ELSE undo_stack
           /\ lastAction' =
                 [op |-> "delete_refs", follows |-> "any", label |-> label,
                  removed |-> {[path |-> p, content |-> files[p]] :
                                  p \in (targets \cap DOMAIN files) \ DOMAIN done.disk},
                  captured |-> {[path |-> done.items[i].original_path,
                                 content |-> files[done.items[i].original_path]] :
                                   i \in 1 .. Len(done.items)},
                  failed |-> failing,
                  requested |-> RequestedBy(label)]
    /\ UNCHANGED <<send2trash, label_records, trash_folders>>
    /\ UNCHANGED nonUndoVars

\* undo_last, delete_refs: the body of "for e in entries"; st is [disk, rows]
RestoreItem(st, e, label) ==
    IF e.backup_path \in DOMAIN st.disk
    THEN [disk |-> Move(st.disk, e.backup_path, e.original_path),
          rows |-> insert_reference(st.rows, e.original_path, label)]
    ELSE st

RECURSIVE RestoreLoop(_, _, _)
RestoreLoop(st, items, label) ==
    IF items = <<>> THEN st
    ELSE RestoreLoop(RestoreItem(st, Head(items), label), Tail(items), label)

\* what the Revert that follows remembers of the action before it
Follows ==
    IF lastAction.op = "delete_refs"
    THEN [lastAction EXCEPT !.op = "revert", !.follows = "delete_refs",
                            !.requested = <<>>]
    ELSE [op |-> "revert", follows |-> "other", label |-> None, removed |-> {},
          captured |-> {}, failed |-> {}, requested |-> <<>>]

\* the rows and the disk without a label's folder
FolderOf(disk, label) == {p \in DOMAIN disk : p.dir = label}
WithoutFolder(disk, label) == [p \in DOMAIN disk \ FolderOf(disk, label) |-> disk[p]]

\* _trash_move_label_folder(label_dir) -> (ok, detail), with the disk and the
\* trash it leaves; get_label_folder_path has made sure the folder exists
_trash_move_label_folder(disk, trash, label, raises) ==
    IF raises
    THEN [ok |-> FALSE, detail |-> ErrorDetail, disk |-> disk, trash |-> trash]
    ELSE IF send2trash
    THEN [ok |-> TRUE, detail |-> RecycleDetail, disk |-> WithoutFolder(disk, label),
          trash |-> trash]
    ELSE LET taken == [x \in DOMAIN disk \cup DOMAIN trash |-> 0]
             dest == _unique_path(taken, ".trash", label)
         IN  [ok |-> TRUE, detail |-> dest, disk |-> WithoutFolder(disk, label),
              trash |-> (dest :> [p \in FolderOf(disk, label) |-> disk[p]]) @@ trash]

\* the threshold a deleted label is left with ("thr if thr is not None else 0.3")
DefaultThreshold == 30

\* ReferenceBrowser.delete_label_all, confirmed by the user: label is the
\* label filter; raises says whether moving the folder to the trash raised
delete_label_all(label, raises) ==
    /\ label \in DOMAIN label_records
    /\ LET tm == _trash_move_label_folder(files, trash_folders, label, raises)
           trashed_folder == IF tm.ok THEN tm.detail ELSE NoPath
           gone == FolderOf(files, label) \ DOMAIN tm.disk
       IN  /\ files' = tm.disk
           /\ trash_folders' = tm.trash
           /\ refs' = {r \in refs : r.label # label}
           /\ thresholds' = [thresholds EXCEPT ![label] = DefaultThreshold]
           /\ label_records' = [l \in DOMAIN label_records \ {label} |-> label_records[l]]
           /\ undo_stack' = push(undo_stack, [type |-> "delete_label", label |-> label,
                                              trashed_folder |-> trashed_folder,
                                              threshold |-> thresholds[label]])
           /\ lastAction' =
                 [op |-> "delete_label", follows |-> "any", label |-> label,
                  removed |-> {[path |-> p, content |-> files[p]] : p \in gone},
                  captured |-> IF trashed_folder \notin {NoPath, RecycleDetail}
                               THEN {[path |-> p, content |-> files[p]] : p \in gone}
                               ELSE {},
                  failed |-> IF raises THEN FolderOf(files, label) ELSE {},
                  requested |-> RequestedBy(label)]
    /\ UNCHANGED <<send2trash, faces_in, lastMatch>>
    /\ UNCHANGED nonLabelVars

\* renames are explored while the store holds at most this many rows
MaxRows == 5

\* the names a label can be renamed to: an existing label and a new one
NewLabels == {"Alice", "Dana"}

\* rename_label: the free name for base in new_folder: base, else base_2,
\* base_3, ...
RenameCandidate(disk, new_folder, p) ==
    IF Path(new_folder, p.name, p.n) \notin DOMAIN disk THEN Path(new_folder, p.name, p.n)
    ELSE Path(new_folder, p.name,
              CHOOSE i \in 2 .. (Cardinality(DOMAIN disk) + 2) :
                  /\ Path(new_folder, p.name, i) \notin DOMAIN disk
                  /\ \A j \in 2 .. (i - 1) : Path(new_folder, p.name, j) \in DOMAIN disk)

\* rename_label: the body of "for (_id, lbl, path) in entries" for one row of
\* the label; st is [disk, rows, moved].  A file outside the old folder is
\* not moved, a file that is not there makes shutil.move raise, and in both
\* cases the row is relabelled where it is.
RenameOne(st, path, current, new_label) ==
    IF path.dir = current /\ path \in DOMAIN st.disk
    THEN LET candidate == RenameCandidate(st.disk, new_label, path)
         IN  [disk |-> Move(st.disk, path, candidate),
              rows |-> insert_reference(st.rows, candidate, new_label),
              moved |-> st.moved \cup {[path |-> path, content |-> st.disk[path]]}]
    ELSE [st EXCEPT !.rows = insert_reference(st.rows, path, new_label)]

RECURSIVE RenameLoop(_, _, _, _)
RenameLoop(st, todo, current, new_label) ==
    IF todo = <<>> THEN st
    ELSE RenameLoop(RenameOne(st, Head(todo), current, new_label), Tail(todo),
                    current, new_label)

\* ReferenceBrowser.rename_label: current is the label filter, new_label the
\* name the user typed.  No undo record is pushed.
rename_label(current, new_label) ==
    /\ current \in DOMAIN label_records
    /\ new_label # current
    /\ Cardinality(refs) <= MaxRows
    /\ (\A p \in FolderOf(files, current) : p.n = 0) \/ FolderOf(files, new_label) = {}
    /\ LET done == RenameLoop([disk |-> files, rows |-> refs, moved |-> {}],
                              SeqOf(PathsOf(refs, current)), current, new_label)
       IN  /\ files' = done.disk
           /\ refs' = done.rows
           /\ thresholds' = (new_label :> thresholds[current]) @@ thresholds
           /\ label_records' = (new_label :> new_label) @@ label_records
           /\ lastAction' =
                 [op |-> "rename_label", follows |-> "any", label |-> current,
                  removed |-> done.moved,
                  captured |-> {}, failed |-> {},
                  requested |-> <<new_label>>]
    /\ UNCHANGED <<send2trash, undo_stack, trash_folders, faces_in, lastMatch>>
    /\ UNCHANGED nonLabelVars

\* where shutil.move puts a folder whose destination exists and is not empty
NestedDir(label) ==
    CASE label = "Alice" -> "Alice/Alice"
      [] label = "Bob" -> "Bob/Bob"
      [] OTHER -> "Carol/Carol"

\* (mutant) a record without a backup folder is restored as an empty folder
RestoreLabel_NeverRefused(st, item, move_raises) ==
    [disk |-> st.disk, rows |-> st.rows, trash |-> st.trash,
     records |-> (item.label :> item.label) @@ st.records,
     thresholds |-> [st.thresholds EXCEPT ![item.label] = item.threshold],
     outcome |-> "restored"]

\* undo_last, delete_label: st is [disk, rows, trash, records, thresholds];
\* move_raises says whether shutil.move of the backup folder raised
RestoreLabel(st, item, move_raises) ==
    IF item.trashed_folder \in {NoPath, RecycleDetail}
    THEN [st EXCEPT !.outcome = "refused"]
    ELSE IF move_raises \/ item.trashed_folder \notin DOMAIN st.trash
    THEN [st EXCEPT !.outcome = "failed"]
    ELSE LET held == st.trash[item.trashed_folder]
             dir == IF FolderOf(st.disk, item.label) = {} THEN item.label
                    ELSE NestedDir(item.label)
             back == [q \in {Path(dir, p.name, p.n) : p \in DOMAIN held} |->
                         held[Path(item.label, q.name, q.n)]]
             disk2 == back @@ st.disk
             walk == {q \in DOMAIN disk2 : q.dir \in {item.label, NestedDir(item.label)}}
         IN  [disk |-> disk2,
              rows |-> {r \in st.rows : r.path \notin walk}
                       \cup {Row(item.label, q) : q \in walk},
              trash |-> [f \in DOMAIN st.trash \ {item.trashed_folder} |-> st.trash[f]],
              records |-> (item.label :> item.label) @@ st.records,
              thresholds |-> [st.thresholds EXCEPT ![item.label] = item.threshold],
              outcome |-> "restored"]

\* ImageRangerGUI.undo_last (labeler) and undo_last_action (ranger): pop the
\* stack and reverse a delete_refs or a delete_label record.  In the labeler
\* the delete_label branch too reads reference_browser.label_filter before
\* it requests the rebuild.
undo_last(move_raises) ==
    IF undo_stack = <<>>
    THEN /\ ~move_raises
         /\ lastAction' = Follows
         /\ UNCHANGED <<refs, files, send2trash, undo_stack, label_records,
                        trash_folders, matchVars>>
         /\ UNCHANGED nonLabelVars
    ELSE LET item == undo_stack[Len(undo_stack)]
         IN  IF item.type = "delete_refs"
             THEN LET done == RestoreLoop([disk |-> files, rows |-> refs], item.items,
                                          item.label)
                  IN  /\ ~move_raises
                      /\ undo_stack' = SubSeq(undo_stack, 1, Len(undo_stack) - 1)
                      /\ files' = done.disk
                      /\ refs' = done.rows
                      /\ lastAction' = [Follows EXCEPT !.requested = RequestedBy(item.label)]
                      /\ UNCHANGED <<send2trash, label_records, trash_folders, matchVars>>
                      /\ UNCHANGED nonLabelVars
             ELSE LET done == RestoreLabel([disk |-> files, rows |-> refs,
                                            trash |-> trash_folders,
                                            records |-> label_records,
                                            thresholds |-> thresholds,
                                            outcome |-> "none"], item, move_raises)
                  IN  /\ move_raises => item.trashed_folder \in DOMAIN trash_folders
                      /\ undo_stack' = SubSeq(undo_stack, 1, Len(undo_stack) - 1)
                      /\ files' = done.disk
                      /\ refs' = done.rows
                      /\ trash_folders' = done.trash
                      /\ label_records' = done.records
                      /\ thresholds' = done.thresholds
                      /\ lastAction' =
                            [op |-> "revert",
                             follows |-> IF done.outcome = "refused"
                                         THEN "delete_label_refused" ELSE "delete_label",
                             label |-> item.label, removed |-> {}, captured |-> {},
                             failed |-> IF done.outcome = "failed"
                                        THEN {item.trashed_folder} ELSE {},
                             requested |-> IF done.outcome = "restored"
                                           THEN RequestedBy(item.label) ELSE <<>>]
                      /\ UNCHANGED <<send2trash, faces_in, lastMatch>>
                      /\ UNCHANGED nonLabelVars

UndoInit ==
    /\ send2trash \in BOOLEAN
    /\ undo_stack = <<>>
    /\ lastAction = [op |-> "none", follows |-> "any", label |-> None,
                     removed |-> {}, captured |-> {}, failed |-> {},
                     requested |-> <<>>]
    /\ label_records = [l \in Labels |-> l]
    /\ trash_folders = [f \in {} |-> [p \in {} |-> ""]]

NextUndo ==
    \/ \E label \in Labels, targets \in SUBSET DOMAIN InitialFiles :
          \E failing \in SUBSET targets :
              delete_selected_refs(label, targets, failing)
    \/ \E move_raises \in BOOLEAN : undo_last(move_raises)

(***************************************************************************)
(* Thumbnail cache: an OrderedDict used as an LRU with two budgets.        *)
(***************************************************************************)
\* the budgets, scaled down from 2000 entries and 256 MiB
ThumbItemsLimit == 3
ThumbBytesLimit == 300000

\* the zoom slider's range and the positions the user moves it to
zoom_min == 80
zoom_max == 360
ZoomValues == {96, 160, 192}
ZoomTargets == {"main", "ref"}

\* the images shown in the grid and in the reference strip
ThumbPaths == {"a", "b"}

Key(path, size) == [path |-> path, size |-> size]

\* _estimate_thumb_bytes
_estimate_thumb_bytes(size_px) == size_px * size_px * 4

Max(a, b) == IF a >= b THEN a ELSE b
Min(a, b) == IF a <= b THEN a ELSE b
Abs(a) == IF a >= 0 THEN a ELSE 0 - a

RECURSIVE SumEst(_)
SumEst(cache) == IF cache = <<>> THEN 0 ELSE Head(cache).est + SumEst(Tail(cache))

KeysOf(cache) == [i \in 1 .. Len(cache) |-> cache[i].key]
KeySet(cache) == {cache[i].key : i \in 1 .. Len(cache)}

RECURSIVE Without(_, _)
Without(seq, S) ==
    IF seq = <<>> THEN <<>>
    ELSE IF Head(seq) \in S THEN Without(Tail(seq), S)
    ELSE <<Head(seq)>> \o Without(Tail(seq), S)

\* (mutant) the entry goes, its estimate stays in the total
PopOldest_NoSubtract(st) ==
    [cache |-> Tail(st.cache), bytes |-> st.bytes,
     evicted |-> Append(st.evicted, Head(st.cache).key)]

\* _thumb_cache.popitem(last=False) and the subtraction that follows it;
\* st is [cache, bytes, evicted]
PopOldest(st) ==
    [cache |-> Tail(st.cache), bytes |-> st.bytes - Head(st.cache).est,
     evicted |-> Append(st.evicted, Head(st.cache).key)]

RECURSIVE EvictBytes(_)
EvictBytes(st) ==
    IF st.bytes > ThumbBytesLimit /\ st.cache # <<>> THEN EvictBytes(PopOldest(st))
    ELSE st

RECURSIVE EvictCount(_)
EvictCount(st) ==
    IF Len(st.cache) > ThumbItemsLimit /\ st.cache # <<>> THEN EvictCount(PopOldest(st))
    ELSE st

\* (mutant) eviction by count alone
_evict_cache_if_needed_CountOnly(st) == EvictCount(st)

\* _evict_cache_if_needed: by size first, then by count
_evict_cache_if_needed(st) == EvictCount(EvictBytes(st))

\* (mutant) a hit leaves the entry where it is
Touch_InPlace(cache, key) == cache

\* load_thumb on a hit: pop(key) and reinsert, which moves the entry to the end
Touch(cache, key) ==
    LET e == CHOOSE x \in {cache[i] : i \in 1 .. Len(cache)} : x.key = key
    IN  Append(SelectSeq(cache, LAMBDA x : x.key # key), e)

\* load_thumb(path, size), called by the renderers with the size of their
\* zoom target; decodes says whether PIL opens the image
load_thumb(path, target, decodes) ==
    LET key == Key(path, thumb_size[target])
        recency == Append(Without(accessOrder, {key}), key)
    IN  IF key \in KeySet(thumb_cache)
        THEN /\ thumb_cache' = Touch(thumb_cache, key)
             /\ accessOrder' = recency
             /\ thumbHits' = thumbHits \cup {key}
             /\ lastThumbOp' = [op |-> "hit", key |-> key, evicted |-> <<>>,
                                recency |-> recency]
             /\ UNCHANGED <<thumb_cache_est_bytes, thumb_size, last_zoom>>
             /\ UNCHANGED nonThumbVars
        ELSE IF ~decodes
        THEN /\ lastThumbOp' = [op |-> "fail", key |-> key, evicted |-> <<>>,
                                recency |-> <<>>]
             /\ UNCHANGED <<thumb_cache, thumb_cache_est_bytes, thumb_size,
                            last_zoom, accessOrder, thumbHits>>
             /\ UNCHANGED nonThumbVars
        ELSE LET est == _estimate_thumb_bytes(thumb_size[target])
                 done == _evict_cache_if_needed(
                             [cache |-> Append(thumb_cache, [key |-> key, est |-> est]),
                              bytes |-> thumb_cache_est_bytes + est,
                              evicted |-> <<>>])
                 gone == {done.evicted[i] : i \in 1 .. Len(done.evicted)}
             IN  /\ thumb_cache' = done.cache
                 /\ thumb_cache_est_bytes' = done.bytes
                 /\ accessOrder' = Without(recency, gone)
                 /\ thumbHits' = (thumbHits \ {key}) \ gone
                 /\ lastThumbOp' = [op |-> "miss", key |-> key,
                                    evicted |-> done.evicted, recency |-> recency]
                 /\ UNCHANGED <<thumb_size, last_zoom>>
                 /\ UNCHANGED nonThumbVars

\* _maybe_purge_cache_on_zoom: the test for a big jump
big_jump(old_size, new_size) ==
    LET old == IF old_size <= 0 THEN new_size ELSE old_size
        jump_px == Abs(new_size - old)
    IN  jump_px >= 48 \/ 4 * jump_px >= Max(1, old)

\* (mutant) a purge empties the cache
PurgeKeep_Clear(cache, new_size) == <<>>

\* _maybe_purge_cache_on_zoom: keep the entries of the new size
PurgeKeep(cache, new_size) == SelectSeq(cache, LAMBDA x : x.key.size = new_size)

\* on_zoom_change(value) with the active zoom target
on_zoom_change(v, target) ==
    LET value == Max(zoom_min, Min(zoom_max, v))
        old == last_zoom[target]
        purge == big_jump(old, value) /\ thumb_cache # <<>>
        keep == IF purge THEN PurgeKeep(thumb_cache, value) ELSE thumb_cache
    IN  /\ value # thumb_size[target]
        /\ thumb_size' = [thumb_size EXCEPT ![target] = value]
        /\ last_zoom' = [last_zoom EXCEPT ![target] = value]
        /\ thumb_cache' = keep
        /\ thumb_cache_est_bytes' =
              IF purge THEN SumEst(keep) ELSE thumb_cache_est_bytes
        /\ accessOrder' = Without(accessOrder, KeySet(thumb_cache) \ KeySet(keep))
        /\ thumbHits' = thumbHits \cap KeySet(keep)
        /\ lastThumbOp' = [op |-> IF purge THEN "purge" ELSE "zoom",
                           key |-> Key("", value), evicted |-> <<>>, recency |-> <<>>]
        /\ UNCHANGED nonThumbVars

\* clear_thumb_cache
clear_thumb_cache ==
    /\ thumb_cache' = <<>>
    /\ thumb_cache_est_bytes' = 0
    /\ accessOrder' = <<>>
    /\ thumbHits' = {}
    /\ lastThumbOp' = [op |-> "clear", key |-> Key("", 0), evicted |-> <<>>,
                       recency |-> <<>>]
    /\ UNCHANGED <<thumb_size, last_zoom>>
    /\ UNCHANGED nonThumbVars

ThumbInit ==
    /\ thumb_cache = <<>>
    /\ thumb_cache_est_bytes = 0
    /\ thumb_size = [main |-> 160, ref |-> 96]
    /\ last_zoom = [main |-> 160, ref |-> 96]
    /\ accessOrder = <<>>
    /\ thumbHits = {}
    /\ lastThumbOp = [op |-> "none", key |-> Key("", 0), evicted |-> <<>>,
                      recency |-> <<>>]

NextThumb ==
    \/ \E path \in ThumbPaths, target \in ZoomTargets, decodes \in BOOLEAN :
          load_thumb(path, target, decodes)
    \/ \E v \in ZoomValues, target \in ZoomTargets : on_zoom_change(v, target)
    \/ clear_thumb_cache

(***************************************************************************)
(* The grid's thumbnail job: a producer thread looks each path up in the   *)
(* module-level cache (_thumbcache_get) while the UI thread stores the     *)
(* decoded ones (_thumbcache_put).  Each containment test, list or dict    *)
(* operation is one step; nothing else orders the two threads.             *)
(***************************************************************************)
\* _THUMB_CACHE_MAX (400 in the source), scaled down
ThumbCacheMax == 2

GridPaths == {"a", "b", "c"}

\* the paths of a folder, in the order the grid lists them
PathLists ==
    {<<x>> : x \in GridPaths}
    \cup {q \in {<<x, y>> : x \in GridPaths, y \in GridPaths} : q[1] # q[2]}

Elems(seq) == {seq[i] : i \in 1 .. Len(seq)}

\* list.remove(x): the first occurrence goes
RECURSIVE RemoveFirst(_, _)
RemoveFirst(seq, x) ==
    IF seq = <<>> THEN <<>>
    ELSE IF Head(seq) = x THEN Tail(seq)
    ELSE <<Head(seq)>> \o RemoveFirst(Tail(seq), x)

ProducerIdle == [pc |-> "idle", key |-> "", todo |-> <<>>]
PutterIdle == [pc |-> "idle", key |-> ""]

\* _start_thumb_job(paths): a new queue and a new producer thread, here once
\* the previous job has ended and its thumbnails are stored
start_thumb_job(paths) ==
    /\ producer.pc \in {"idle", "crashed"}
    /\ putter.pc = "idle"
    /\ thumb_queue = <<>>
    /\ producer' = [pc |-> "loop", key |-> "", todo |-> paths]
    /\ UNCHANGED <<_THUMB_CACHE, _THUMB_CACHE_ORDER, thumb_queue, putter>>
    /\ UNCHANGED nonJobVars

\* producer: "for p in paths"
producer_next ==
    /\ producer.pc = "loop"
    /\ producer' =
          IF producer.todo = <<>> THEN ProducerIdle
          ELSE [pc |-> "in_cache", key |-> Head(producer.todo), todo |-> Tail(producer.todo)]
    /\ UNCHANGED <<_THUMB_CACHE, _THUMB_CACHE_ORDER, thumb_queue, putter>>
    /\ UNCHANGED nonJobVars

\* _thumbcache_get: "if key in _THUMB_CACHE"; on a miss the producer decodes
\* the file and queues it (or queues an error, which stores nothing)
get_in_cache(decodes) ==
    /\ producer.pc = "in_cache"
    /\ IF producer.key \in _THUMB_CACHE
       THEN /\ producer' = [producer EXCEPT !.pc = "in_order"]
            /\ UNCHANGED thumb_queue
       ELSE /\ producer' = [producer EXCEPT !.pc = "loop"]
            /\ thumb_queue' = IF decodes THEN Append(thumb_queue, producer.key)
                              ELSE thumb_queue
    /\ UNCHANGED <<_THUMB_CACHE, _THUMB_CACHE_ORDER, putter>>
    /\ UNCHANGED nonJobVars

\* _thumbcache_get: "if key in _THUMB_CACHE_ORDER"
get_in_order ==
    /\ producer.pc = "in_order"
    /\ producer' = [producer EXCEPT !.pc =
                      IF producer.key \in Elems(_THUMB_CACHE_ORDER) THEN "remove"
                      ELSE "append"]
    /\ UNCHANGED <<_THUMB_CACHE, _THUMB_CACHE_ORDER, thumb_queue, putter>>
    /\ UNCHANGED nonJobVars

\* _thumbcache_get: "_THUMB_CACHE_ORDER.remove(key)"; ValueError ends the
\* thread when the key is no longer in the list
get_remove ==
    /\ producer.pc = "remove"
    /\ IF producer.key \in Elems(_THUMB_CACHE_ORDER)
       THEN /\ _THUMB_CACHE_ORDER' = RemoveFirst(_THUMB_CACHE_ORDER, producer.key)
            /\ producer' = [producer EXCEPT !.pc = "append"]
       ELSE /\ producer' = [producer EXCEPT !.pc = "crashed"]
            /\ UNCHANGED _THUMB_CACHE_ORDER
    /\ UNCHANGED <<_THUMB_CACHE, thumb_queue, putter>>
    /\ UNCHANGED nonJobVars

\* _thumbcache_get: "_THUMB_CACHE_ORDER.append(key)"
get_append ==
    /\ producer.pc = "append"
    /\ _THUMB_CACHE_ORDER' = Append(_THUMB_CACHE_ORDER, producer.key)
    /\ producer' = [producer EXCEPT !.pc = "return"]
    /\ UNCHANGED <<_THUMB_CACHE, thumb_queue, putter>>
    /\ UNCHANGED nonJobVars

\* _thumbcache_get: "return _THUMB_CACHE[key]"; KeyError ends the thread
\* when the key is no longer in the dict
get_return ==
    /\ producer.pc = "return"
    /\ producer' = [producer EXCEPT !.pc =
                      IF producer.key \in _THUMB_CACHE THEN "loop" ELSE "crashed"]
    /\ UNCHANGED <<_THUMB_CACHE, _THUMB_CACHE_ORDER, thumb_queue, putter>>
    /\ UNCHANGED nonJobVars

\* _consume_thumbs_batch takes a decoded thumbnail off the queue and calls
\* _thumbcache_put(path, tkimg)
consume_thumb ==
    /\ putter.pc = "idle"
    /\ thumb_queue # <<>>
    /\ putter' = [pc |-> "store", key |-> Head(thumb_queue)]
    /\ thumb_queue' = Tail(thumb_queue)
    /\ UNCHANGED <<_THUMB_CACHE, _THUMB_CACHE_ORDER, producer>>
    /\ UNCHANGED nonJobVars

\* _thumbcache_put: "_THUMB_CACHE[key] = value"
put_store ==
    /\ putter.pc = "store"
    /\ _THUMB_CACHE' = _THUMB_CACHE \cup {putter.key}
    /\ putter' = [putter EXCEPT !.pc = "append"]
    /\ UNCHANGED <<_THUMB_CACHE_ORDER, thumb_queue, producer>>
    /\ UNCHANGED nonJobVars

\* _thumbcache_put: "_THUMB_CACHE_ORDER.append(key)"
put_append ==
    /\ putter.pc = "append"
    /\ _THUMB_CACHE_ORDER' = Append(_THUMB_CACHE_ORDER, putter.key)
    /\ putter' = [putter EXCEPT !.pc = "while"]
    /\ UNCHANGED <<_THUMB_CACHE, thumb_queue, producer>>
    /\ UNCHANGED nonJobVars

\* _thumbcache_put: "while len(_THUMB_CACHE_ORDER) > _THUMB_CACHE_MAX:
\* old = _THUMB_CACHE_ORDER.pop(0)"
put_while ==
    /\ putter.pc = "while"
    /\ IF Len(_THUMB_CACHE_ORDER) > ThumbCacheMax
       THEN /\ putter' = [pc |-> "del", key |-> Head(_THUMB_CACHE_ORDER)]
            /\ _THUMB_CACHE_ORDER' = Tail(_THUMB_CACHE_ORDER)
       ELSE /\ putter' = PutterIdle
            /\ UNCHANGED _THUMB_CACHE_ORDER
    /\ UNCHANGED <<_THUMB_CACHE, thumb_queue, producer>>
    /\ UNCHANGED nonJobVars

\* _thumbcache_put: "del _THUMB_CACHE[old]", a KeyError being passed over
put_del ==
    /\ putter.pc = "del"
    /\ _THUMB_CACHE' = _THUMB_CACHE \ {putter.key}
    /\ putter' = [putter EXCEPT !.pc = "while"]
    /\ UNCHANGED <<_THUMB_CACHE_ORDER, thumb_queue, producer>>
    /\ UNCHANGED nonJobVars

JobInit ==
    /\ _THUMB_CACHE = {}
    /\ _THUMB_CACHE_ORDER = <<>>
    /\ thumb_queue = <<>>
    /\ producer = ProducerIdle
    /\ putter = PutterIdle

NextJob ==
    \/ \E paths \in PathLists : start_thumb_job(paths)
    \/ producer_next
    \/ \E decodes \in BOOLEAN : get_in_cache(decodes)
    \/ get_in_order
    \/ get_remove
    \/ get_append
    \/ get_return
    \/ consume_thumb
    \/ put_store
    \/ put_append
    \/ put_while
    \/ put_del

(***************************************************************************)
(* The two namers that look for a free file name in a folder:              *)
(* _unique_path (trash) and _build_safe_destination (distribution).  A     *)
(* file name is its stem, the separator and the number appended to it; the *)
(* extension is carried over unchanged by both.                            *)
(***************************************************************************)
FileName(stem, sep, n) == [stem |-> stem, sep |-> sep, n |-> n]

\* the names a folder may hold already
Stems == {"x", "y"}
NameSpace ==
    {FileName(st, "", 0) : st \in Stems}
    \cup {FileName("x", "-", i) : i \in 1 .. 2}
    \cup {FileName("x", "_", i) : i \in 1 .. 3}

\* _unique_path: "candidate = dest_dir / name", then f"{stem}-{i}{suffix}"
\* from i = 1
UniqueName(taken, stem) ==
    IF FileName(stem, "", 0) \notin taken THEN FileName(stem, "", 0)
    ELSE FileName(stem, "-",
                  CHOOSE i \in 1 .. (Cardinality(taken) + 1) :
                      /\ FileName(stem, "-", i) \notin taken
                      /\ \A j \in 1 .. (i - 1) : FileName(stem, "-", j) \in taken)

\* _build_safe_destination with keep_original_filenames: the name, then
\* f"{name}_{i}{ext}" from i = 2
SafeName(taken, stem) ==
    IF FileName(stem, "", 0) \notin taken THEN FileName(stem, "", 0)
    ELSE FileName(stem, "_",
                  CHOOSE i \in 2 .. (Cardinality(taken) + 2) :
                      /\ FileName(stem, "_", i) \notin taken
                      /\ \A j \in 2 .. (i - 1) : FileName(stem, "_", j) \in taken)

NoNames == [taken |-> {}, stem |-> "", unique |-> FileName("", "", 0),
            safe |-> FileName("", "", 0)]

\* both namers are asked for a free name for the same file in the same folder
ask_both(taken, stem) ==
    /\ lastNames' = [taken |-> taken, stem |-> stem,
                     unique |-> UniqueName(taken, stem),
                     safe |-> SafeName(taken, stem)]
    /\ UNCHANGED nonNameVars

NameInit == lastNames = NoNames

NextName == \E taken \in SUBSET NameSpace, stem \in Stems : ask_both(taken, stem)

(***************************************************************************)
(* Distribution of a matched photo over the label folders.                 *)
(***************************************************************************)
\* os.path.join(output_dir, label)
OutDir(label) == "output/" \o label

\* the photos waiting in the inbox (two share a file name) and what the
\* output folders already hold
InitialDisk ==
    (Path("inbox", "x", 0) :> "photo1") @@ (Path("inbox/sub", "x", 0) :> "photo2")
    @@ (Path(OutDir("Alice"), "x", 0) :> "older")

InboxPaths == {Path("inbox", "x", 0), Path("inbox/sub", "x", 0)}

Modes == {"best", "multi"}

\* a move is let fail only while the folders hold at most this many files
MaxFiles == 3

\* keep_original_filenames as the callers of the sort pass it
KeepOptions == {TRUE}

\* (mutant) the name itself, whether it is taken or not
_build_safe_destination_Plain(d, out_folder, filename, keep_original_filenames) ==
    Path(out_folder, filename, 0)

\* _build_safe_destination(out_folder, filename, keep_original_filenames):
\* the name itself, else name_2, name_3, ...; without keep_original_filenames
\* a uuid4 prefix (suffix below 0), taken to be one no file of the folder has
_build_safe_destination(d, out_folder, filename, keep_original_filenames) ==
    LET free(i) == Path(out_folder, filename, i) \notin DOMAIN d
        most == Cardinality(DOMAIN d) + 2
    IN  IF ~keep_original_filenames
        THEN Path(out_folder, filename,
                  0 - (CHOOSE i \in 1 .. most :
                          free(0 - i) /\ \A j \in 1 .. (i - 1) : ~free(0 - j)))
        ELSE IF free(0) THEN Path(out_folder, filename, 0)
        ELSE Path(out_folder, filename,
                  CHOOSE i \in 2 .. most :
                      free(i) /\ \A j \in 2 .. (i - 1) : ~free(j))

\* shutil.copy2(src, dst)
Copy(d, src, dst) ==
    [x \in DOMAIN d \cup {dst} |-> IF x = dst THEN d[src] ELSE d[x]]

\* _copy_one; raises says whether shutil.copy2 raised
_copy_one(d, src_path, dest_folder, filename, keep_original_filenames, raises) ==
    IF raises \/ src_path \notin DOMAIN d THEN d
    ELSE Copy(d, src_path,
              _build_safe_destination(d, dest_folder, filename,
                                      keep_original_filenames))

\* (mutant) the file is moved under its own name, taken or not
_move_one_Overwrites(d, src_path, dest_folder, filename, keep_original_filenames, raises) ==
    IF raises \/ src_path \notin DOMAIN d THEN d
    ELSE Move(d, src_path, Path(dest_folder, filename, 0))

\* (mutant) the file is copied and the source is kept
_move_one_KeepsSource(d, src_path, dest_folder, filename, keep_original_filenames, raises) ==
    IF raises \/ src_path \notin DOMAIN d THEN d
    ELSE Copy(d, src_path,
              _build_safe_destination(d, dest_folder, filename,
                                      keep_original_filenames))

\* _move_one; raises says whether shutil.move raised
_move_one(d, src_path, dest_folder, filename, keep_original_filenames, raises) ==
    IF raises \/ src_path \notin DOMAIN d THEN d
    ELSE Move(d, src_path,
              _build_safe_destination(d, dest_folder, filename,
                                      keep_original_filenames))

\* sorted(labels_set)[0]
FirstSorted(labels_set) ==
    IF "Alice" \in labels_set THEN "Alice"
    ELSE IF "Bob" \in labels_set THEN "Bob" ELSE "Carol"

\* (mutant) no copy is made for the other labels
CopyToOthers_Skip(d, img_path, others, keep_original_filenames, failing) == d

\* distribute_to_labels, multi: "for lbl in others", each copy in its own try
RECURSIVE CopyToOthers(_, _, _, _, _)
CopyToOthers(d, img_path, others, keep_original_filenames, failing) ==
    IF others = {} THEN d
    ELSE LET lbl == CHOOSE l \in others : TRUE
         IN  CopyToOthers(_copy_one(d, img_path, OutDir(lbl), img_path.name,
                                    keep_original_filenames, lbl \in failing),
                          img_path, others \ {lbl}, keep_original_filenames,
                          failing)

\* distribute_to_labels(img_path, filename, labels_set, best_label, output_dir,
\* log_callback, keep_original_filenames, mode); copy_fails are the labels
\* whose copy raises and move_fails says whether the move raises
distribute_to_labels(img_path, labels_set, best_label, keep_original_filenames, mode, copy_fails, move_fails) ==
    LET best == IF best_label = None THEN FirstSorted(labels_set) ELSE best_label
        single == mode = "best" \/ Cardinality(labels_set) = 1
        others == labels_set \ {best}
        copied == IF single THEN folders
                  ELSE CopyToOthers(folders, img_path, others,
                                    keep_original_filenames, copy_fails)
    IN  /\ img_path \in DOMAIN folders
        /\ labels_set # {}
        /\ copy_fails \subseteq (IF single THEN {} ELSE others)
        /\ move_fails => Cardinality(DOMAIN folders) <= MaxFiles
        /\ folders' = _move_one(copied, img_path, OutDir(best), img_path.name,
                             keep_original_filenames, move_fails)
        /\ lastDist' = [img_path |-> img_path, photo |-> folders[img_path],
                        labels_set |-> labels_set, best_label |-> best,
                        mode |-> mode, copy_fails |-> copy_fails,
                        move_fails |-> move_fails]
        /\ UNCHANGED nonSortVars

\* sort_photos_with_embeddings_from_folder_using_db: a photo that is
\* unreadable, shows no face, matches no label or is sorted in manual mode is
\* moved to unmatched_dir inside a try; move_fails says whether the move raised
UnmatchedDir == "unmatched"

move_to_unmatched(img_path, keep_original_filenames, move_fails) ==
    /\ img_path \in DOMAIN folders
    /\ folders' =
          IF move_fails THEN folders
          ELSE Move(folders, img_path,
                    _build_safe_destination(folders, UnmatchedDir, img_path.name,
                                            keep_original_filenames))
    /\ lastDist' = [img_path |-> img_path, photo |-> folders[img_path],
                    labels_set |-> {}, best_label |-> None, mode |-> "unmatched",
                    copy_fails |-> {}, move_fails |-> move_fails]
    /\ UNCHANGED nonSortVars

SortInit ==
    /\ folders = InitialDisk
    /\ lastDist = [img_path |-> Path("", "", 0), photo |-> "", labels_set |-> {},
                   best_label |-> None, mode |-> "none", copy_fails |-> {},
                   move_fails |-> FALSE]

NextSort ==
    \E img_path \in InboxPaths, labels_set \in SUBSET Labels,
       keep_original_filenames \in KeepOptions, mode \in Modes, move_fails \in BOOLEAN :
        \E best_label \in labels_set \cup {None}, copy_fails \in SUBSET labels_set :
            \/ distribute_to_labels(img_path, labels_set, best_label,
                                    keep_original_filenames, mode, copy_fails,
                                    move_fails)
            \/ /\ labels_set = {} /\ best_label = None /\ mode = "best"
               /\ move_to_unmatched(img_path, keep_original_filenames, move_fails)

(***************************************************************************)
(* Matching: identify_faces over the embedding cache.  Scores and          *)
(* thresholds are in hundredths.                                           *)
(***************************************************************************)
\* most faces in one image
MaxFaces == 2

\* cosine similarities of a face to the cached vectors, and the thresholds
\* the user sets
Scores == {0, 62, 74}
ThresholdValues == {0, 30, 70}

\* the orders in which ref_embeddings.items() can list the cached labels
RECURSIVE Orders(_)
Orders(S) ==
    IF S = {} THEN {<<>>}
    ELSE UNION {{<<l>> \o t : t \in Orders(S \ {l})} : l \in S}

\* the images app.get can return faces for: one to MaxFaces faces, each with a
\* score against every cached label
FaceLists(cached) ==
    UNION {[1 .. n -> [cached -> Scores]] : n \in 1 .. MaxFaces}

\* identify_faces: "for label, ref_emb in ref_embeddings.items()" for one face;
\* acc is [label, score], at first [None, 0]
RECURSIVE BestForFace(_, _, _, _)
BestForFace(order, face, thr, acc) ==
    IF order = <<>> THEN acc
    ELSE LET label == Head(order)
             score == face[label]
             threshold == thr[label]
         IN  BestForFace(Tail(order), face, thr,
                         IF score >= threshold /\ score > acc.score
                         THEN [label |-> label, score |-> score]
                         ELSE acc)

\* (mutant) the score of the last face that kept the label
NoteScore_Last(label_scores, label, score) ==
    IF \E i \in 1 .. Len(label_scores) : label_scores[i].label = label
    THEN [i \in 1 .. Len(label_scores) |->
             IF label_scores[i].label = label
             THEN [label |-> label, score |-> score]
             ELSE label_scores[i]]
    ELSE Append(label_scores, [label |-> label, score |-> score])

\* label_scores[best_label] = max(label_scores.get(best_label, 0.0), best_score),
\* label_scores being the items of the dict in insertion order
NoteScore(label_scores, label, score) ==
    IF \E i \in 1 .. Len(label_scores) : label_scores[i].label = label
    THEN [i \in 1 .. Len(label_scores) |->
             IF label_scores[i].label = label
             THEN [label |-> label, score |-> Max(label_scores[i].score, score)]
             ELSE label_scores[i]]
    ELSE Append(label_scores, [label |-> label, score |-> score])

\* identify_faces: "for face in faces"; st is [matches, label_scores, kept]
RECURSIVE MatchFaces(_, _, _, _)
MatchFaces(faces, order, thr, st) ==
    IF faces = <<>> THEN st
    ELSE LET best == BestForFace(order, Head(faces), thr,
                                 [label |-> None, score |-> 0])
         IN  MatchFaces(Tail(faces), order, thr,
                 IF best.label # None
                 THEN [matches |-> Append(st.matches, best),
                       label_scores |-> NoteScore(st.label_scores, best.label,
                                                  best.score),
                       kept |-> Append(st.kept, best.label)]
                 ELSE [st EXCEPT !.kept = Append(st.kept, None)])

\* max(label_scores.items(), key=lambda kv: kv[1])[0]: the first of the highest
ArgMaxFirst(label_scores) ==
    LET top == CHOOSE i \in 1 .. Len(label_scores) :
                  /\ \A j \in 1 .. Len(label_scores) :
                        label_scores[j].score <= label_scores[i].score
                  /\ \A j \in 1 .. (i - 1) :
                        label_scores[j].score < label_scores[i].score
    IN  label_scores[top].label

\* identify_faces(faces, file, log_callback, match_mode) ->
\* (labels_set, best_label, label_scores); matches are the rows it logs
IdentifyFaces(faces, order, thr) ==
    LET st == MatchFaces(faces, order, thr,
                         [matches |-> <<>>, label_scores |-> <<>>, kept |-> <<>>])
    IN  [labels_set |-> {st.matches[i].label : i \in 1 .. Len(st.matches)},
         best_label |-> IF st.matches = <<>> THEN None
                        ELSE ArgMaxFirst(st.label_scores),
         label_scores |-> st.label_scores,
         matches |-> st.matches,
         kept |-> st.kept]

NoFaces == [faces |-> <<>>, order |-> <<>>]

NoMatch ==
    [op |-> "none", faces |-> <<>>, order |-> <<>>, thr |-> <<>>, labels_set |-> {},
     best_label |-> None, label_scores |-> <<>>, matches |-> <<>>, kept |-> <<>>]

\* the sort reaches the next image and app.get(img) finds faces in it
app_get(faces, order) ==
    /\ faces_in = NoFaces
    /\ lastMatch = NoMatch
    /\ faces_in' = [faces |-> faces, order |-> order]
    /\ UNCHANGED <<thresholds, lastMatch>>
    /\ UNCHANGED nonMatchVars

\* the sort calls identify_faces on the faces found
identify_faces ==
    /\ faces_in # NoFaces
    /\ faces_in.order \in Orders(DOMAIN ref_embeddings)
    /\ LET r == IdentifyFaces(faces_in.faces, faces_in.order, thresholds)
       IN  lastMatch' = [op |-> "identify", faces |-> faces_in.faces,
                         order |-> faces_in.order, thr |-> thresholds,
                         labels_set |-> r.labels_set, best_label |-> r.best_label,
                         label_scores |-> r.label_scores, matches |-> r.matches,
                         kept |-> r.kept]
    /\ faces_in' = NoFaces
    /\ UNCHANGED thresholds
    /\ UNCHANGED nonMatchVars

\* the sort has distributed the image and goes on to the next file
next_file ==
    /\ lastMatch # NoMatch
    /\ lastMatch' = NoMatch
    /\ UNCHANGED <<thresholds, faces_in>>
    /\ UNCHANGED nonMatchVars

\* reference_db.set_threshold_for_label(label, thr), between two images
set_threshold_for_label(label, thr) ==
    /\ faces_in = NoFaces
    /\ lastMatch = NoMatch
    /\ thresholds[label] # thr
    /\ thresholds' = [thresholds EXCEPT ![label] = thr]
    /\ UNCHANGED <<faces_in, lastMatch>>
    /\ UNCHANGED nonMatchVars

MatchInit ==
    /\ thresholds = [l \in Labels |-> 30]
    /\ faces_in = NoFaces
    /\ lastMatch = NoMatch

NextMatch ==
    \/ /\ ref_embeddings = EmptyCache
       /\ build_reference_embeddings_from_db(TRUE)
    \/ /\ faces_in = NoFaces
       /\ lastMatch = NoMatch
       /\ \E faces \in FaceLists(DOMAIN ref_embeddings) :
             \E order \in Orders(DOMAIN ref_embeddings) : app_get(faces, order)
    \/ identify_faces
    \/ next_file
    \/ \E label \in Labels, thr \in ThresholdValues :
          set_threshold_for_label(label, thr)

(***************************************************************************)
(* The sort worker, step by step, and the Stop button.                     *)
(***************************************************************************)
\* os.walk(inbox_dir): the folders of the inbox, each with its files
InboxWalk == <<<<Path("inbox", "x", 0)>>, <<Path("inbox/sub", "x", 0)>>>>

MatchModes == {"best", "multi", "manual"}

SorterIdle ==
    [pc |-> "idle", walk |-> <<>>, files |-> <<>>, cur |-> NoPath, mode |-> "none",
     labels_set |-> {}, best |-> None, pending |-> {}]

\* the file the worker is working on, if any
InFlight ==
    IF sorter.pc \in {"detect", "check2", "manual", "check3", "identify", "copy", "move",
                     "move_multi"}
    THEN sorter.cur ELSE NoPath

\* a write for the current file: remembered when it comes after the stop, and
\* when it raised
NoteWrite(raised) ==
    [stopNote EXCEPT !.late = IF stop_event THEN @ \cup {sorter.cur} ELSE @,
                     !.faulted = @ \/ raised]

\* (mutant) the file is left where it is
ToUnmatched_Stay(move_fails) == folders

\* "dst = _build_safe_destination(unmatched_dir, file, ...); shutil.move(img_path,
\* dst)" inside its try
ToUnmatched(move_fails) ==
    IF move_fails THEN folders
    ELSE Move(folders, sorter.cur,
              _build_safe_destination(folders, UnmatchedDir, sorter.cur.name, TRUE))

\* start_sort_flow: a new stop event, and the worker thread enters the sort
start_sort_flow(match_mode) ==
    /\ sorter.pc = "idle"
    /\ sort_outcome = "none"
    /\ stop_event' = FALSE
    /\ sorter' = [SorterIdle EXCEPT !.pc = "outer", !.walk = InboxWalk,
                                    !.mode = match_mode]
    /\ UNCHANGED <<sort_outcome, stopNote, sortVars>>
    /\ UNCHANGED <<match_log, nonRunVars>>

\* toggle_sort while sorting, confirmed: sort_stop_event.set()
toggle_sort ==
    /\ sorter.pc \notin {"idle", "done"}
    /\ ~stop_event
    /\ stop_event' = TRUE
    /\ stopNote' = [stopNote EXCEPT !.in_flight = InFlight,
                                    !.returned = sorter.pc \in {"returned", "raised",
                                                                "reported"}]
    /\ UNCHANGED <<sorter, sort_outcome, sortVars>>
    /\ UNCHANGED <<match_log, nonRunVars>>

\* "for subdir, _, files in os.walk(inbox_dir): if _should_stop(): break"
walk_next ==
    /\ sorter.pc = "outer"
    /\ sorter' =
          IF sorter.walk = <<>> \/ stop_event
          THEN [sorter EXCEPT !.pc = "returned"]
          ELSE [sorter EXCEPT !.pc = "inner", !.files = Head(sorter.walk),
                              !.walk = Tail(sorter.walk)]
    /\ UNCHANGED <<stop_event, sort_outcome, stopNote, sortVars>>
    /\ UNCHANGED <<match_log, nonRunVars>>

\* "for file in files: if _should_stop(): break", and the isfile test
file_next ==
    /\ sorter.pc = "inner"
    /\ sorter' =
          IF sorter.files = <<>> \/ stop_event
          THEN [sorter EXCEPT !.pc = "outer", !.files = <<>>]
          ELSE IF Head(sorter.files) \notin DOMAIN folders
          THEN [sorter EXCEPT !.files = Tail(sorter.files)]
          ELSE [sorter EXCEPT !.pc = "detect", !.cur = Head(sorter.files),
                              !.files = Tail(sorter.files)]
    /\ UNCHANGED <<stop_event, sort_outcome, stopNote, sortVars>>
    /\ UNCHANGED <<match_log, nonRunVars>>

\* decoding and app.get(img): without a face the file goes to unmatched
detect(has_faces, move_fails) ==
    /\ sorter.pc = "detect"
    /\ IF has_faces
       THEN /\ ~move_fails
            /\ sorter' = [sorter EXCEPT !.pc = "check2"]
            /\ UNCHANGED <<folders, stopNote>>
       ELSE /\ folders' = ToUnmatched(move_fails)
            /\ stopNote' = NoteWrite(move_fails)
            /\ sorter' = [sorter EXCEPT !.pc = "inner"]
    /\ UNCHANGED <<stop_event, sort_outcome, lastDist>>
    /\ UNCHANGED <<match_log, nonRunVars>>

\* the two "if _should_stop(): break" that follow the detection
check_stop ==
    /\ sorter.pc \in {"check2", "check3"}
    /\ sorter' =
          IF stop_event THEN [sorter EXCEPT !.pc = "outer", !.files = <<>>]
          ELSE [sorter EXCEPT !.pc = IF sorter.pc = "check2" THEN "manual"
                                     ELSE "identify"]
    /\ UNCHANGED <<stop_event, sort_outcome, stopNote, sortVars>>
    /\ UNCHANGED <<match_log, nonRunVars>>

\* "if match_mode == 'manual'": the file goes to unmatched
manual_mode(move_fails) ==
    /\ sorter.pc = "manual"
    /\ IF sorter.mode = "manual"
       THEN /\ folders' = ToUnmatched(move_fails)
            /\ stopNote' = NoteWrite(move_fails)
            /\ sorter' = [sorter EXCEPT !.pc = "inner"]
       ELSE /\ ~move_fails
            /\ sorter' = [sorter EXCEPT !.pc = "check3"]
            /\ UNCHANGED <<folders, stopNote>>
    /\ UNCHANGED <<stop_event, sort_outcome, lastDist>>
    /\ UNCHANGED <<match_log, nonRunVars>>

\* the match of one face: (best_label, best_score)
FaceMatch(label, score) == [label |-> label, score |-> score]

\* what the faces of an image match, face by face: nothing, one label, one
\* label twice, two labels with the better one last, two labels at the same
\* score, three labels
MatchLists ==
    {<<>>,
     <<FaceMatch("Alice", 70)>>,
     <<FaceMatch("Alice", 50), FaceMatch("Alice", 70)>>,
     <<FaceMatch("Bob", 50), FaceMatch("Alice", 70)>>,
     <<FaceMatch("Carol", 70), FaceMatch("Bob", 70)>>,
     <<FaceMatch("Alice", 50), FaceMatch("Bob", 70), FaceMatch("Carol", 50)>>}

\* identify_faces: label_scores after the loop over the faces
RECURSIVE ScoresOf(_, _)
ScoresOf(matches, label_scores) ==
    IF matches = <<>> THEN label_scores
    ELSE ScoresOf(Tail(matches),
                  NoteScore(label_scores, Head(matches).label, Head(matches).score))

\* (mutant) only the match of the first face is logged
LogMatches_FirstOnly(log, file, matches, match_mode) ==
    IF matches = <<>> THEN log
    ELSE Append(log, [file |-> file, label |-> matches[1].label,
                      score |-> matches[1].score, mode |-> match_mode])

\* identify_faces: "log_match_result(file, best_label, best_score,
\* match_mode=match_mode)" for each face that matched
LogMatches(log, file, matches, match_mode) ==
    log \o [i \in 1 .. Len(matches) |->
               [file |-> file, label |-> matches[i].label,
                score |-> matches[i].score, mode |-> match_mode]]

\* identify_faces logs the matches of the faces and returns (labels_set,
\* best_label); without a match the file goes to unmatched, else
\* distribute_to_labels begins
identify(matches, move_fails) ==
    /\ sorter.pc = "identify"
    /\ match_log' = LogMatches(match_log, sorter.cur.name, matches, sorter.mode)
    /\ LET labels_set == {matches[i].label : i \in 1 .. Len(matches)}
           best_label == IF matches = <<>> THEN None
                         ELSE ArgMaxFirst(ScoresOf(matches, <<>>))
       IN  IF labels_set = {}
           THEN /\ folders' = ToUnmatched(move_fails)
                /\ stopNote' = NoteWrite(move_fails)
                /\ sorter' = [sorter EXCEPT !.pc = "inner"]
           ELSE /\ ~move_fails
                /\ sorter' =
                      IF sorter.mode = "best" \/ Cardinality(labels_set) = 1
                      THEN [sorter EXCEPT !.pc = "move", !.best = best_label,
                                          !.labels_set = labels_set,
                                          !.pending = {}]
                      ELSE [sorter EXCEPT !.pc = "copy", !.best = best_label,
                                          !.labels_set = labels_set,
                                          !.pending = labels_set \ {best_label}]
                /\ UNCHANGED <<folders, stopNote>>
    /\ UNCHANGED <<stop_event, sort_outcome, lastDist>>
    /\ UNCHANGED nonRunVars

\* distribute_to_labels, multi: one pass of "for lbl in others"
copy_step(lbl, raises) ==
    /\ sorter.pc = "copy"
    /\ lbl \in sorter.pending
    /\ folders' = _copy_one(folders, sorter.cur, OutDir(lbl), sorter.cur.name, TRUE,
                            raises)
    /\ stopNote' = NoteWrite(raises)
    /\ sorter' = [sorter EXCEPT !.pending = @ \ {lbl},
                                !.pc = IF sorter.pending = {lbl} THEN "move_multi"
                                       ELSE "copy"]
    /\ UNCHANGED <<stop_event, sort_outcome, lastDist>>
    /\ UNCHANGED <<match_log, nonRunVars>>

\* distribute_to_labels: the move to the best label; after the copies of the
\* multi branch a failure is logged, in the branch of mode best or of a single
\* label it leaves the sort as an exception
move_step(raises) ==
    /\ sorter.pc \in {"move", "move_multi"}
    /\ folders' = _move_one(folders, sorter.cur, OutDir(sorter.best), sorter.cur.name,
                            TRUE, raises)
    /\ stopNote' = NoteWrite(raises)
    /\ sorter' = [sorter EXCEPT !.pc = IF raises /\ sorter.pc = "move" THEN "raised"
                                       ELSE "inner"]
    /\ UNCHANGED <<stop_event, sort_outcome, lastDist>>
    /\ UNCHANGED <<match_log, nonRunVars>>

\* (mutant) the worker logs completion whatever the stop event says
worker_report_NoStopTest ==
    /\ sorter.pc \in {"returned", "raised"}
    /\ sort_outcome' = IF sorter.pc = "raised" THEN "error" ELSE "complete"
    /\ sorter' = [sorter EXCEPT !.pc = "reported"]
    /\ UNCHANGED <<stop_event, stopNote, sortVars>>
    /\ UNCHANGED <<match_log, nonRunVars>>

\* start_sort_flow.worker after the sort: what it logs
worker_report ==
    /\ sorter.pc \in {"returned", "raised"}
    /\ sort_outcome' =
          IF sorter.pc = "raised" THEN "error"
          ELSE IF stop_event THEN "stopped" ELSE "complete"
    /\ sorter' = [sorter EXCEPT !.pc = "reported"]
    /\ UNCHANGED <<stop_event, stopNote, sortVars>>
    /\ UNCHANGED <<match_log, nonRunVars>>

\* _set_sort_idle, run by root.after(0, ...)
set_sort_idle ==
    /\ sorter.pc = "reported"
    /\ sorter' = [sorter EXCEPT !.pc = "done"]
    /\ UNCHANGED <<stop_event, sort_outcome, stopNote, sortVars>>
    /\ UNCHANGED <<match_log, nonRunVars>>

RunInit ==
    /\ sorter = SorterIdle
    /\ stop_event = FALSE
    /\ sort_outcome = "none"
    /\ stopNote = [in_flight |-> NoPath, late |-> {}, faulted |-> FALSE,
                   returned |-> FALSE]
    /\ match_log = <<>>

WorkerStep ==
    \/ walk_next
    \/ file_next
    \/ \E has_faces \in BOOLEAN, move_fails \in BOOLEAN : detect(has_faces, move_fails)
    \/ check_stop
    \/ \E move_fails \in BOOLEAN : manual_mode(move_fails)
    \/ \E matches \in MatchLists, move_fails \in BOOLEAN : identify(matches, move_fails)
    \/ \E lbl \in Labels, raises \in BOOLEAN : copy_step(lbl, raises)
    \/ \E raises \in BOOLEAN : move_step(raises)
    \/ worker_report

NextRun ==
    \/ \E match_mode \in MatchModes : start_sort_flow(match_mode)
    \/ toggle_sort
    \/ WorkerStep
    \/ set_sort_idle

SchedInit ==
    /\ variant \in {"labeler", "ranger"}
    /\ afterQueue = {}
    /\ rebuild_after_id = 0
    /\ rebuild_last_label = None
    /\ rebuild_pending = 0
    /\ cancel_event = FALSE
    /\ is_closing = FALSE
    /\ is_busy = FALSE
    /\ jobs = {}
    /\ doneQueue = 0
    /\ burst = <<>>
    /\ burstJobs = <<>>

Init == SchedInit /\ StoreInit /\ CacheInit /\ UndoInit /\ ThumbInit /\ SortInit /\ MatchInit /\ RunInit /\ SwapInit /\ JobInit /\ NameInit /\ StackInit

\* the other components run with the labeler's scheduler idle
InitIdle == Init /\ variant = "labeler"

\* the same without the send2trash package
InitPlain == InitIdle /\ send2trash = FALSE

NextSched ==
    \/ \E l \in LabelOrNone \cup {""} : schedule_rebuild_embeddings(l)
    \/ \E t \in afterQueue : run_rebuild_coalesced(t)
    \/ \E l \in LabelOrNone : rebuild_embeddings_async(l)
    \/ \E l \in LabelOrNone \cup {""} : rebuild_embeddings_async_debounced(l)
    \/ \E t \in afterQueue : rebuild_do(t)
    \/ \E j \in jobs : job_done(j)
    \/ end_busy
    \/ on_close

SpecSched == Init /\ [][NextSched]_vars

\* a rebuild is asked for, with or without debounce
RequestStep ==
    \/ \E l \in LabelOrNone \cup {""} : schedule_rebuild_embeddings(l)
    \/ \E l \in LabelOrNone : rebuild_embeddings_async(l)
    \/ \E l \in LabelOrNone \cup {""} : rebuild_embeddings_async_debounced(l)

\* Tk's main loop runs a due root.after callback
TimerStep == \E t \in afterQueue : run_rebuild_coalesced(t) \/ rebuild_do(t)

\* the main loop runs the due callbacks and every started thread returns
SpecSchedLive ==
    /\ Init /\ [][NextSched]_vars
    /\ WF_vars(TimerStep)
    /\ WF_vars(end_busy)
    /\ \A j \in [jid : JobIds, scope : LabelOrNone] : WF_vars(job_done(j))

SpecCache == InitPlain /\ [][NextCache]_vars

SpecUndo == Init /\ [][NextUndo]_vars

\* the flows around a label's deletion: thresholds are edited, single
\* references and whole labels are deleted, and the deletions are reverted
NextLabel ==
    \/ \E label \in DOMAIN label_records, thr \in ThresholdValues \ {0} :
          set_threshold_for_label(label, thr)
    \/ \E label \in Labels, raises \in BOOLEAN : delete_label_all(label, raises)
    \/ \E p \in FolderOf(InitialFiles, "Alice") : delete_selected_refs("Alice", {p}, {})
    \/ \E move_raises \in BOOLEAN : undo_last(move_raises)

SpecLabel == Init /\ [][NextLabel]_vars

\* the destructive actions of the reference browser and Revert: label Bob
\* is renamed, references of Alice and the label Carol are deleted
NextRename ==
    \/ \E new_label \in NewLabels : rename_label("Bob", new_label)
    \/ \E raises \in BOOLEAN : delete_label_all("Carol", raises)
    \/ \E p \in FolderOf(InitialFiles, "Alice") : delete_selected_refs("Alice", {p}, {})
    \/ \E move_raises \in BOOLEAN : undo_last(move_raises)

SpecRename == Init /\ [][NextRename]_vars

SpecThumb == InitPlain /\ [][NextThumb]_vars

SpecSort == InitPlain /\ [][NextSort]_vars

SpecMatch == InitPlain /\ [][NextMatch]_vars

SpecSwap == InitPlain /\ [][NextSwap]_vars

SpecJob == InitPlain /\ [][NextJob]_vars

SpecName == InitPlain /\ [][NextName]_vars

SpecStack == InitPlain /\ [][NextStack]_vars

\* the worker thread keeps running once started
SpecRun == InitPlain /\ [][NextRun]_vars /\ WF_vars(WorkerStep)

(***************************************************************************)
(* Claims about the rebuild scheduler.                                     *)
(***************************************************************************)
\* the coalescing window is over: requests were made, no timer is pending
WindowClosed == ~is_closing /\ afterQueue = {} /\ burst # <<>>

\* C1: a burst of N >= 1 debounced rebuild requests, each inside the window
\* of the previous one, starts exactly one rebuild job: none while a timer
\* of the burst is still pending, exactly one once the timer has fired.
C1_OneJobPerBurst ==
    ~is_closing =>
        IF afterQueue = {}
        THEN burst # <<>> => Len(burstJobs) = 1
        ELSE Len(burstJobs) = 0

\* a burst of three requests has ended and has started its one job
C1_Witness == WindowClosed /\ Len(burst) = MaxBurst /\ Len(burstJobs) = 1

\* C2 (as claimed): the one rebuild of a burst recomputes every label that
\* any request of the burst named.
C2_ScopeIsUnionOfBurst ==
    (WindowClosed /\ Len(burstJobs) = 1) =>
        \A i \in 1 .. Len(burst) :
            burst[i] # None => burst[i] \in RecomputedBy(burstJobs[1])

\* C3 (as claimed): at most one rebuild job runs at any time.
C3_AtMostOneJobRunning == Cardinality(jobs) <= 1

\* C4 (as claimed): if any request of the burst asked for AllLabels (no
\* label), the rebuild started for the burst is a full rebuild.
C4_AllLabelsSupersedes ==
    (WindowClosed /\ Len(burstJobs) = 1) =>
        ((\E i \in 1 .. Len(burst) : burst[i] = None) => burstJobs[1] = None)

(***************************************************************************)
(* Claims about the embedding cache.                                       *)
(***************************************************************************)
\* C5: build_reference_embeddings_for_labels called for the labels L leaves
\* the cached vector, and the presence or absence, of every label outside L
\* exactly as it was before the call.
C5_LabelIsolation ==
    [][lastBuild'.op = "for_labels" =>
         \A l \in Labels \ lastBuild'.labels :
             Entry(ref_embeddings', l) = Entry(ref_embeddings, l)]_vars

\* a partial rebuild changed the cache while a label outside it is cached
C5_Witness ==
    /\ lastBuild.op = "for_labels"
    /\ lastBuild.changed
    /\ \E l \in Labels \ lastBuild.labels : l \in DOMAIN ref_embeddings

(***************************************************************************)
(* Claims about the reversible mutations.                                  *)
(***************************************************************************)
\* the Revert that directly follows a delete_selected_refs has put back what
\* the files in S held, reinserted their rows under the label and requested
\* a rebuild of that label alone
RevertRestored(S) ==
    /\ \A x \in S :
          /\ x.path \in DOMAIN files
          /\ files[x.path] = x.content
          /\ Row(lastAction.label, x.path) \in refs
    /\ lastAction.requested = <<lastAction.label>>

\* C6: after delete_selected_refs removed reference images of
\* one label, the Revert that follows restores every removed file to its
\* original path, reinserts its row under the label and requests a rebuild
\* of that label only.
C6_RevertRestoresEveryRemovedFile ==
    (lastAction.op = "revert" /\ lastAction.follows = "delete_refs"
        /\ lastAction.removed # {}) => RevertRestored(lastAction.removed)

\* C7: a file whose soft-delete failed in delete_selected_refs
\* stays on disk, keeps its Reference Store row and is not in the pushed
\* UndoRecord.
C7_FailedSoftDeleteKeepsFileAndRow ==
    lastAction.op = "delete_refs" =>
        \A p \in lastAction.failed :
            /\ p \in DOMAIN files
            /\ Row(lastAction.label, p) \in refs
            /\ \A x \in lastAction.captured : x.path # p

(***************************************************************************)
(* Claims about the thumbnail cache.                                       *)
(***************************************************************************)
\* C8: after every completed load_thumb the estimated bytes held by the
\* cache, summed over its entries and as counted, are at most the byte
\* budget, and the number of entries is at most the item budget.
C8_BudgetsHoldAfterLoadThumb ==
    lastThumbOp.op \in {"hit", "miss", "fail"} =>
        /\ SumEst(thumb_cache) <= ThumbBytesLimit
        /\ thumb_cache_est_bytes <= ThumbBytesLimit
        /\ Len(thumb_cache) <= ThumbItemsLimit

\* a load_thumb that inserted an entry and had to evict, leaving a full cache
C8_Witness ==
    /\ lastThumbOp.op = "miss"
    /\ lastThumbOp.evicted # <<>>
    /\ Len(thumb_cache) = ThumbItemsLimit

\* C9: an eviction pass removes the entries least recently loaded, oldest
\* first, where a hit counts as a load: what it evicts is the front of the
\* keys in order of last access, and what it keeps is the rest.
C9_EvictionIsLeastRecentlyUsed ==
    lastThumbOp.op = "miss" =>
        LET n == Len(lastThumbOp.evicted)
        IN  /\ n <= Len(lastThumbOp.recency)
            /\ lastThumbOp.evicted = SubSeq(lastThumbOp.recency, 1, n)
            /\ KeysOf(thumb_cache) =
                  SubSeq(lastThumbOp.recency, n + 1, Len(lastThumbOp.recency))

\* an eviction pass spared an entry whose last access was a hit
C9_Witness ==
    /\ lastThumbOp.op = "miss"
    /\ lastThumbOp.evicted # <<>>
    /\ \E k \in thumbHits : k \in KeySet(thumb_cache) /\ k # lastThumbOp.key

(***************************************************************************)
(* Claims about the distribution of photos.                                *)
(***************************************************************************)
\* the folder of the label holds the photo of the last call
HoldsPhoto(label) ==
    \E p \in DOMAIN folders : p.dir = OutDir(label) /\ folders[p] = lastDist.photo

\* C10: after distribute_to_labels in mode multi with matched labels M and
\* best label b, when no copy and no move raised, every folder of a label of
\* M other than b holds a copy of the photo, the folder of b holds the
\* photo, and the photo is no longer at its source path.
C10_MultiFanOut ==
    (lastDist.mode = "multi" /\ lastDist.copy_fails = {} /\ ~lastDist.move_fails) =>
        /\ \A l \in lastDist.labels_set \ {lastDist.best_label} : HoldsPhoto(l)
        /\ HoldsPhoto(lastDist.best_label)
        /\ lastDist.img_path \notin DOMAIN folders

\* a photo matched to all three labels was fanned out without a fault
C10_Witness ==
    /\ lastDist.mode = "multi"
    /\ lastDist.labels_set = Labels
    /\ lastDist.best_label = "Bob"
    /\ lastDist.copy_fails = {}
    /\ ~lastDist.move_fails
    /\ HoldsPhoto("Alice") /\ HoldsPhoto("Bob") /\ HoldsPhoto("Carol")
    /\ lastDist.img_path \notin DOMAIN folders

\* C11: a write of the distribution engine never changes a file that was
\* there before it, and a file it creates carries the plain name or, when
\* that name was taken, the first free one of name_2, name_3, ...
C11_CollisionSafe ==
    [][/\ \A p \in DOMAIN folders \cap DOMAIN folders' : folders'[p] = folders[p]
       /\ \A p \in DOMAIN folders' \ DOMAIN folders :
             \/ p.n = 0
             \/ /\ p.n >= 2
                /\ Path(p.dir, p.name, 0) \in DOMAIN folders
                /\ \A j \in 2 .. (p.n - 1) : Path(p.dir, p.name, j) \in DOMAIN folders]_vars

\* three photos of one file name were written into one folder and all three
\* are there
C11_Witness ==
    /\ {Path(OutDir("Alice"), "x", 0), Path(OutDir("Alice"), "x", 2),
        Path(OutDir("Alice"), "x", 3)} \subseteq DOMAIN folders
    /\ {folders[Path(OutDir("Alice"), "x", 0)], folders[Path(OutDir("Alice"), "x", 2)],
        folders[Path(OutDir("Alice"), "x", 3)]} = {"older", "photo1", "photo2"}

(***************************************************************************)
(* Claims about matching.                                                  *)
(***************************************************************************)
\* the labels that qualify for face i of the last identify_faces call
Candidates(i) ==
    {l \in DOMAIN lastMatch.faces[i] : lastMatch.faces[i][l] >= lastMatch.thr[l]}

\* C12: for every face, the labels whose score is at least their threshold
\* are its candidates; the face keeps a candidate of the highest score, and
\* keeps no label exactly when it has no candidate.
C12_ThresholdGatePerFace ==
    lastMatch.op = "identify" =>
        \A i \in 1 .. Len(lastMatch.faces) :
            IF Candidates(i) = {}
            THEN lastMatch.kept[i] = None
            ELSE /\ lastMatch.kept[i] \in Candidates(i)
                 /\ \A l \in Candidates(i) :
                       lastMatch.faces[i][l] <= lastMatch.faces[i][lastMatch.kept[i]]

\* the faces of the last call that kept the label, and the label's score
KeptBy(l) == {i \in 1 .. Len(lastMatch.kept) : lastMatch.kept[i] = l}
ScoreOf(l) ==
    LET i == CHOOSE j \in 1 .. Len(lastMatch.label_scores) :
                 lastMatch.label_scores[j].label = l
    IN  lastMatch.label_scores[i].score

SortReturned == sorter.pc \in {"returned", "raised", "reported", "done"}

\* the stop was set while the sort ran and no copy or move raised
StoppedCleanly == stop_event /\ ~stopNote.returned /\ ~stopNote.faulted

\* the photo that was at inbox path p is in a label folder
Distributed(p) ==
    \E q \in DOMAIN folders :
        /\ q.dir \in {OutDir(l) : l \in Labels}
        /\ folders[q] = InitialDisk[p]

\* C14: once the stop event is set, every copy or move the sort still makes
\* is for the file that was in flight; when the sort has returned, no file
\* is in a label folder and still in the inbox; the sort does return; and
\* the worker reports it as stopped.  Stated for runs in which no copy or
\* move raised.
C14_StopAfterFileInFlight ==
    /\ [](stop_event => \A f \in stopNote.late : f = stopNote.in_flight)
    /\ []((StoppedCleanly /\ SortReturned) =>
            \A p \in InboxPaths : Distributed(p) => p \notin DOMAIN folders)
    /\ []((StoppedCleanly /\ sort_outcome # "none") => sort_outcome = "stopped")
    /\ (stop_event ~> SortReturned)

\* the stop came while the first file was being copied to its labels; the
\* copies and the move were finished after it, the second file was left in
\* the inbox and the worker reported the stop
C14_Witness ==
    /\ StoppedCleanly
    /\ sort_outcome = "stopped"
    /\ sorter.mode = "multi"
    /\ stopNote.in_flight = Path("inbox", "x", 0)
    /\ stopNote.late = {Path("inbox", "x", 0)}
    /\ Distributed(Path("inbox", "x", 0))
    /\ Path("inbox", "x", 0) \notin DOMAIN folders
    /\ Path("inbox/sub", "x", 0) \in DOMAIN folders

\* the valid embeddings of a label: one per reference row whose file exists,
\* decodes and shows a face
ValidEmbeddings(lbl) == EmbedPaths(SeqOf(PathsOf(refs, lbl)), files)

\* the last call was a rebuild that got its model and had labels to rebuild
RebuiltLabels ==
    IF lastBuild.op = "none" \/ ~lastBuild.app_ok THEN {} ELSE lastBuild.labels

\* C16: after a rebuild of either scope that ran with its model, every label
\* it rebuilt that has no valid embedding (no reference row, or every row's
\* file missing, unreadable or without a face) has no entry in ref_embeddings.
C16_NoStaleVector ==
    \A l \in RebuiltLabels : ValidEmbeddings(l) = <<>> => l \notin DOMAIN ref_embeddings

\* a partial rebuild of Alice alone, whose files have all gone, changed the
\* cache: it removed Alice's vector and kept Bob's
C16_Witness ==
    /\ lastBuild.op = "for_labels" /\ lastBuild.app_ok
    /\ lastBuild.labels = {"Alice"} /\ lastBuild.changed
    /\ ValidEmbeddings("Alice") = <<>>
    /\ "Alice" \notin DOMAIN ref_embeddings
    /\ "Bob" \in DOMAIN ref_embeddings

\* C17 (as claimed): a rebuild of either scope whose model failed to
\* initialise leaves ref_embeddings as it was before the call.
C17_ModelFailureKeepsCache ==
    (lastBuild.op # "none" /\ ~lastBuild.app_ok) => ~lastBuild.changed

\* the partial rebuild alone does keep the cache when the model fails
C17_PartialRebuildKeepsCache ==
    (lastBuild.op = "for_labels" /\ ~lastBuild.app_ok) => ~lastBuild.changed

\* C15 (as claimed): a lookup of a label in ref_embeddings made while a
\* rebuild is in flight, for a label that rebuild has not yet swapped in,
\* yields the vector the label had when the rebuild started (no entry if it
\* had none): never a missing or altered entry.
C15_ReaderSeesPreRebuildVector ==
    (lastRead.scope # "none" /\ ~lastRead.swapped) => lastRead.value = lastRead.pre

\* the partial rebuild alone does show every label it has not reached as
\* it was
C15_PartialRebuildKeepsUnswapped ==
    (lastRead.scope = "for_labels" /\ ~lastRead.swapped) => lastRead.value = lastRead.pre

(***************************************************************************)
(* Claims about the grid's thumbnail job.                                  *)
(***************************************************************************)
\* neither thread is inside _thumbcache_get or _thumbcache_put
NoCacheOpRunning == producer.pc \in {"idle", "loop", "crashed"} /\ putter.pc = "idle"

\* the recency list names exactly the cached keys, each once
CacheMatchesOrder ==
    /\ Elems(_THUMB_CACHE_ORDER) = _THUMB_CACHE
    /\ Len(_THUMB_CACHE_ORDER) = Cardinality(_THUMB_CACHE)

\* C18 (as claimed): however the producer thread's get and the UI thread's
\* put and eviction interleave, no get finds the dict and the recency list
\* at odds (a key it saw cached gone from the list or the dict), and once
\* no operation is running the list names exactly the cached keys.
C18_CacheOpsMutuallyExclusive ==
    /\ producer.pc # "crashed"
    /\ NoCacheOpRunning => CacheMatchesOrder

(***************************************************************************)
(* Claims about the deletion of a label and its Revert.                    *)
(***************************************************************************)
\* the record Revert is about to pop
TopRecord == undo_stack[Len(undo_stack)]

\* this step is a Revert: it pops the stack
RevertStep ==
    /\ undo_stack # <<>>
    /\ undo_stack' = SubSeq(undo_stack, 1, Len(undo_stack) - 1)

\* the record's folder was captured to a backup path that is still there
HasBackup(item) ==
    /\ item.type = "delete_label"
    /\ item.trashed_folder \notin {NoPath, RecycleDetail}
    /\ item.trashed_folder \in DOMAIN trash_folders

\* after the step, the files of the record's backup folder are back at their
\* paths in the label's folder, each with a row under the label, and the
\* label has its threshold and its folder record again
LabelRestored(item) ==
    /\ \A p \in DOMAIN trash_folders[item.trashed_folder] :
          /\ p \in DOMAIN files'
          /\ files'[p] = trash_folders[item.trashed_folder][p]
          /\ Row(item.label, p) \in refs'
    /\ thresholds'[item.label] = item.threshold
    /\ item.label \in DOMAIN label_records'
    /\ label_records'[item.label] = item.label

\* C19 (as claimed): a Revert of a delete_label record whose folder was
\* captured to a backup path, the move back not raising, puts every file of
\* the folder back at its original path, reinserts a row for each under the
\* label, restores the label's threshold and folder record, and requests a
\* rebuild of the label.
C19_RevertOfDeleteLabelRoundTrip ==
    [][(RevertStep /\ HasBackup(TopRecord) /\ lastAction'.failed = {})
          => (LabelRestored(TopRecord)
              /\ lastAction'.requested = <<TopRecord.label>>)]_vars

\* the same without the rebuild request: files, rows, threshold and folder
\* record do come back in both variants
C19_RevertRestoresAllButRebuild ==
    [][(RevertStep /\ HasBackup(TopRecord) /\ lastAction'.failed = {})
          => LabelRestored(TopRecord)]_vars

\* and the ranger requests the rebuild too
C19_RangerRequestsRebuild ==
    [][(variant = "ranger" /\ RevertStep /\ HasBackup(TopRecord)
           /\ lastAction'.failed = {})
          => lastAction'.requested = <<TopRecord.label>>]_vars

\* C20: a Revert of a delete_label record without a backup path (the folder
\* went to the recycle bin, or could not be moved at all) is refused: it
\* moves no file, inserts no row, changes no threshold and no label record,
\* and requests no rebuild.
C20_RevertWithoutBackupRefused ==
    [][(RevertStep /\ TopRecord.type = "delete_label"
           /\ TopRecord.trashed_folder \in {NoPath, RecycleDetail})
          => (/\ files' = files
              /\ refs' = refs
              /\ trash_folders' = trash_folders
              /\ thresholds' = thresholds
              /\ label_records' = label_records
              /\ lastAction'.requested = <<>>)]_vars

\* Alice, whose threshold had been edited, was deleted to the recycle bin
\* and the Revert was refused: she has no folder, no row, no record, and
\* the default threshold
C20_Witness ==
    /\ lastAction.op = "revert" /\ lastAction.follows = "delete_label_refused"
    /\ lastAction.label = "Alice"
    /\ send2trash
    /\ FolderOf(files, "Alice") = {}
    /\ PathsOf(refs, "Alice") = {}
    /\ "Alice" \notin DOMAIN label_records
    /\ thresholds["Alice"] = DefaultThreshold
    /\ undo_stack = <<>>

(***************************************************************************)
(* Claims about renaming a label and about the undo records.               *)
(***************************************************************************)
\* C21 (as claimed): the Revert that follows rename_label(old, new) puts
\* every moved file back at its old path with a row under the old label,
\* leaves the old label with its threshold and folder record, deletes the
\* new label's record and requests a rebuild of the old label.
C21_RevertOfRenameRoundTrip ==
    [][(lastAction.op = "rename_label" /\ lastAction'.op = "revert")
          => (/\ \A x \in lastAction.removed :
                    /\ x.path \in DOMAIN files'
                    /\ files'[x.path] = x.content
                    /\ Row(lastAction.label, x.path) \in refs'
              /\ lastAction.label \in DOMAIN label_records'
              /\ lastAction.requested[1] \notin DOMAIN label_records'
              /\ lastAction'.requested = <<lastAction.label>>)]_vars

\* the last action soft-deleted or moved files
Executed ==
    /\ lastAction.op \in {"delete_refs", "delete_label", "rename_label"}
    /\ lastAction.removed # {}

\* C22 (as claimed): after a destructive action that removed or moved
\* files, the top of the undo stack is the record of that action.
C22_ExecutedActionPushedItsRecord ==
    Executed => (/\ undo_stack # <<>>
                 /\ TopRecord.type = lastAction.op
                 /\ TopRecord.label = lastAction.label)

\* delete_label_all always pushes its record, and delete_selected_refs does
\* when at least one file went to the fallback trash
C22_DeletionsWithBackupPushed ==
    (/\ lastAction.op \in {"delete_refs", "delete_label"}
     /\ (lastAction.op = "delete_refs" => lastAction.captured # {}))
        => (/\ undo_stack # <<>>
            /\ TopRecord.type = lastAction.op
            /\ TopRecord.label = lastAction.label)

(***************************************************************************)
(* Claims about the sort: failures, routing and placement.                 *)
(***************************************************************************)
\* the last distribution was a multi-mode one over several labels
MultiDistribution ==
    lastDist.mode = "multi" /\ Cardinality(lastDist.labels_set) > 1

\* the photo last distributed is still where it was picked up
SourceInPlace ==
    /\ lastDist.img_path \in DOMAIN folders
    /\ folders[lastDist.img_path] = lastDist.photo

\* C23 (as claimed): after a multi-mode distribution in which a copy to a
\* non-best label failed or the final move failed, the source file is still
\* at its inbox path.
C23_PartialFailureKeepsSource ==
    (MultiDistribution /\ (lastDist.copy_fails # {} \/ lastDist.move_fails))
        => SourceInPlace

\* the source stays exactly when the final move failed, whatever the copies did
C23_SourceStaysIffMoveFailed ==
    MultiDistribution => (SourceInPlace <=> lastDist.move_fails)

\* C24 (as claimed): a failure on one inbox file (unreadable, or a move or a
\* copy that raised, in any mode) never takes the sort out of its loop.
C24_FailureConfinedToFile ==
    stopNote.faulted => (sorter.pc # "raised" /\ sort_outcome # "error")

\* the only step that leaves the sort by an exception is the move of the
\* branch "mode == 'best' or len(labels_set) == 1"
C24_OnlyTheBestMoveAborts ==
    [][(sorter'.pc = "raised" /\ sorter.pc # "raised") => sorter.pc = "move"]_vars

\* the files of a folder
InDir(disk, dir) == {p \in DOMAIN disk : p.dir = dir}

\* the files of the label folders
InLabelFolders(disk) == {p \in DOMAIN disk : \E l \in Labels : p.dir = OutDir(l)}

\* the worker decides that the current file has no label: it cannot be
\* decoded or shows no face, the mode is manual, or no label qualifies
UnmatchedStep ==
    /\ sorter.pc \in {"detect", "manual", "identify"}
    /\ sorter'.pc = "inner"

\* C25: a file that cannot be decoded, shows no face, is sorted in manual
\* mode or matches no label is moved to unmatched_dir (unless that move
\* raised) and no label folder changes; no other step of the sort puts a
\* file in unmatched_dir.
C25_UnmatchedRouting ==
    [][/\ (UnmatchedStep /\ ~stopNote'.faulted)
            => (/\ sorter.cur \notin DOMAIN folders'
                /\ \E p \in InDir(folders', UnmatchedDir) \ InDir(folders, UnmatchedDir) :
                      folders'[p] = folders[sorter.cur]
                /\ InLabelFolders(folders') = InLabelFolders(folders))
       /\ (InDir(folders', UnmatchedDir) # InDir(folders, UnmatchedDir))
            => UnmatchedStep]_vars

\* a file has reached unmatched_dir and another one a label folder
C25_Witness ==
    /\ InDir(folders, UnmatchedDir) # {}
    /\ InLabelFolders(folders) # InLabelFolders(InitialDisk)

\* the files that hold the photo last distributed
HoldersOfLast == {p \in DOMAIN folders : folders[p] = lastDist.photo}

\* C26: a distribution in mode best whose move did not raise takes the
\* photo from its source path and adds exactly one file, which holds the
\* photo and is in the best label's folder; no other file changes.
C26_BestMovesExactlyOnce ==
    [][(folders' # folders /\ lastDist'.mode = "best" /\ ~lastDist'.move_fails)
          => (/\ DOMAIN folders \ DOMAIN folders' = {lastDist'.img_path}
              /\ Cardinality(DOMAIN folders' \ DOMAIN folders) = 1
              /\ \A p \in DOMAIN folders' \ DOMAIN folders :
                    /\ p.dir = OutDir(lastDist'.best_label)
                    /\ folders'[p] = folders[lastDist'.img_path]
              /\ \A q \in DOMAIN folders \cap DOMAIN folders' :
                    folders'[q] = folders[q])]_vars

\* a photo matched to several labels has been moved in mode best
C26_Witness ==
    /\ lastDist.mode = "best"
    /\ ~lastDist.move_fails
    /\ Cardinality(lastDist.labels_set) > 1
    /\ \E p \in HoldersOfLast : p.dir = OutDir(lastDist.best_label)

NothingOverwritten(before, after) ==
    \A p \in DOMAIN before \cap DOMAIN after : after[p] = before[p]

\* C28 (as claimed): no file operation (soft delete, rename move, undo
\* restore, distribution) writes over a file that exists.
C28_NoOperationOverwrites ==
    [][NothingOverwritten(files, files') /\ NothingOverwritten(folders, folders')]_vars

\* every operation but the Revert keeps to free names
C28_OnlyRevertOverwrites ==
    [][lastAction'.op # "revert" => NothingOverwritten(files, files')]_vars
\* C29 (as claimed): for every folder and file name, _unique_path returns
\* the same file name as _build_safe_destination.
C29_NamersAgree ==
    lastNames # NoNames => lastNames.unique = lastNames.safe

\* the two agree exactly when the name itself is free, and both return a
\* name the folder does not hold
C29_NamersAgreeOnFreeNames ==
    lastNames # NoNames
        => (/\ (lastNames.unique = lastNames.safe
                  <=> FileName(lastNames.stem, "", 0) \notin lastNames.taken)
            /\ lastNames.unique \notin lastNames.taken
            /\ lastNames.safe \notin lastNames.taken)

(***************************************************************************)
(* Claims about the job a debounce timer starts.                           *)
(***************************************************************************)
\* a pending debounce callback runs (it is not cancelled by a new request
\* and the window is not being closed)
TimerFires ==
    /\ afterQueue' # afterQueue
    /\ afterQueue' \subseteq afterQueue
    /\ is_closing' = is_closing

SchedulerIdle ==
    /\ afterQueue = {}
    /\ jobs = {}
    /\ doneQueue = 0
    /\ ~is_closing => ~is_busy

\* C31: if from some point on no rebuild is requested, then every pending
\* timer fires and every started job finishes and is reported, and the
\* scheduler stays idle from then on; an idle scheduler of an open window
\* takes the next request.
C31_SchedulerComesToRest ==
    /\ (<>[][~RequestStep]_vars) => <>[]SchedulerIdle
    /\ []((SchedulerIdle /\ ~is_closing) => (CanRequest /\ ~cancel_event))

\* a burst has been served: its job ran and was reported, nothing is pending
C31_Witness ==
    /\ SchedulerIdle
    /\ ~is_closing
    /\ Len(burst) > 1
    /\ Len(burstJobs) = 1

(***************************************************************************)
(* Claims about what a rebuild computes.                                   *)
(***************************************************************************)
\* the references of a label that are files, can be decoded and show a face
ValidRefs(lbl) ==
    {p \in PathsOf(refs, lbl) :
        p \in DOMAIN files /\ Readable(files[p]) /\ Faces(files[p]) # <<>>}

\* the mean over the valid references of a label of each one's mean face
MeanOfValid(lbl) ==
    LET ps == SeqOf(ValidRefs(lbl))
    IN  MeanOfImages([i \in 1 .. Len(ps) |-> MeanOfFaces(Faces(files[ps[i]]))])

\* C32: after a rebuild of either scope that ran with its model, every label
\* in its scope that has a valid reference is cached, with the vector of its
\* valid references alone: a missing, unreadable or faceless reference of the
\* label, or of another label, changes nothing to that.
C32_InvalidReferencesSkipped ==
    \A l \in RebuiltLabels :
        ValidRefs(l) # {}
            => (l \in DOMAIN ref_embeddings /\ ref_embeddings[l] = MeanOfValid(l))

\* a rebuild covered Bob, who has a reference that cannot be decoded and a
\* valid one, and Carol, whose only reference shows no face
C32_Witness ==
    /\ {"Bob", "Carol"} \subseteq RebuiltLabels
    /\ \E p \in PathsOf(refs, "Bob") : p \in DOMAIN files /\ ~Readable(files[p])
    /\ \E p \in PathsOf(refs, "Carol") : p \in DOMAIN files /\ Faces(files[p]) = <<>>
    /\ ValidRefs("Bob") # {}
    /\ "Bob" \in DOMAIN ref_embeddings

\* the sum of the face vectors of an image divided by their number
ImageVector(p) == Frac(SumInts(Faces(files[p])), Len(Faces(files[p])))

\* C35: after a rebuild that ran with its model, the cached vector of a
\* label in its scope, times the number of the label's valid reference
\* images, is the sum of one vector per image, each the mean of the image's
\* face vectors: an image with two faces weighs as much as one with a single
\* face.
C35_PerImageAveraging ==
    \A l \in RebuiltLabels :
        l \in DOMAIN ref_embeddings
            => LET ps == SeqOf(ValidRefs(l))
                   v == ref_embeddings[l]
               IN  /\ ps # <<>>
                   /\ Frac(v[1] * Len(ps), v[2])
                         = SumFracs([i \in 1 .. Len(ps) |-> ImageVector(ps[i])])

\* Alice was rebuilt from an image with one face (2) and one with two faces
\* (4 and 12): her vector is (2 + 8) / 2 = 5, where pooling the three faces
\* would give 6
C35_Witness ==
    /\ "Alice" \in RebuiltLabels
    /\ Cardinality(ValidRefs("Alice")) = 2
    /\ \E p \in ValidRefs("Alice") : Len(Faces(files[p])) = 2
    /\ Entry(ref_embeddings, "Alice") = <<5, 1>>

(***************************************************************************)
(* Claims about the undo stack.                                            *)
(***************************************************************************)
\* the records of a stack
Held(stack) == {stack[i] : i \in 1 .. Len(stack)}

\* a pop takes the record pushed last among those the stack holds and
\* returns it, the others stay in place; on an empty stack it returns None
\* and changes nothing
PopIsLifo ==
    probe'.pops # probe.pops
        => IF probe.stack = <<>>
           THEN probe'.got = 0 /\ probe'.stack = <<>>
           ELSE /\ probe'.got \in Held(probe.stack)
                /\ \A r \in Held(probe.stack) : r <= probe'.got
                /\ Held(probe'.stack) = Held(probe.stack) \ {probe'.got}
                /\ \A i \in 1 .. Len(probe'.stack) : probe'.stack[i] = probe.stack[i]

\* a push puts its record on top of a stack of at most 50 records, and
\* discards the oldest record when the stack already holds 50
PushIsBounded ==
    /\ Len(probe'.stack) <= 50
    /\ probe'.pushed # probe.pushed
         => (/\ probe'.stack[Len(probe'.stack)] = probe'.pushed
             /\ IF Len(probe.stack) < 50
                THEN Held(probe'.stack) = Held(probe.stack) \cup {probe'.pushed}
                ELSE Held(probe'.stack) =
                       (Held(probe.stack) \ {probe.stack[1]}) \cup {probe'.pushed})

\* C33: the undo stack is LIFO and bounded: a pop returns the most recently
\* pushed record that has not been popped, a pop on an empty stack returns
\* nothing and changes nothing, and after any sequence of pushes the stack
\* holds at most 50 records, the oldest one being discarded when the limit
\* is exceeded.
C33_LifoAndBounded == [][PopIsLifo /\ PushIsBounded]_vars

\* C33, amended: every UndoStack is LIFO; the one of
\* gui_reference_labeler.py.py holds at most 50 records and discards the
\* oldest when a push exceeds the limit, the one of gui_reference_labeler.py
\* keeps every record pushed.
C33_LifoAndBoundedWhereLimited ==
    [][/\ PopIsLifo
       /\ probe.file = "gui_reference_labeler.py.py" => PushIsBounded
       /\ (probe.file = "gui_reference_labeler.py" /\ probe'.pushed # probe.pushed)
            => probe'.stack = Append(probe.stack, probe'.pushed)]_vars

\* the fifty-first push has discarded the first record, and a pop has
\* returned the record pushed last
C33_Witness ==
    /\ probe.file = "gui_reference_labeler.py.py"
    /\ probe.pushed = 51
    /\ probe.got = 51
    /\ Len(probe.stack) = 49
    /\ probe.stack[1] = 2

(***************************************************************************)
(* Claims about the match audit log.                                       *)
(***************************************************************************)
\* the rows of the log from the k-th on that are about the file in flight
RowsFrom(log, k) == {log[i] : i \in k .. Len(log)}

\* every matched label of the file in flight has a row among rows, each row
\* names the file, the mode of the run and a matched label, and the best
\* label has the highest score of them
RowsCoverDecision(rows, labels_set, best_label) ==
    /\ \A l \in labels_set : \E r \in rows : r.label = l
    /\ \A r \in rows : /\ r.file = sorter.cur.name
                       /\ r.mode = sorter.mode
                       /\ r.label \in labels_set
    /\ \E b \in rows : b.label = best_label /\ \A r \in rows : r.score <= b.score

\* C34: every match decision is logged before the file is distributed: the
\* step of identify_faces that hands a file to distribute_to_labels has
\* appended a row (filename, label, score, mode) for every matched label;
\* the log only grows; and a file appears in a label folder only while the
\* worker distributes a file whose rows end the log.
C34_LoggedBeforeDistributed ==
    [][/\ (sorter.pc = "identify" /\ sorter'.pc \in {"copy", "move"})
            => RowsCoverDecision(RowsFrom(match_log', Len(match_log) + 1),
                                 sorter'.labels_set, sorter'.best)
       /\ Len(match_log) <= Len(match_log')
       /\ SubSeq(match_log', 1, Len(match_log)) = match_log
       /\ InLabelFolders(folders') # InLabelFolders(folders)
            => /\ sorter.pc \in {"copy", "move", "move_multi"}
               /\ match_log' = match_log
               /\ \E k \in 1 .. Len(match_log) :
                     RowsCoverDecision(RowsFrom(match_log, k), sorter.labels_set,
                                       sorter.best)]_vars

\* a file of three matched labels has been copied to two folders and moved
\* to the third, and the log holds its three rows
C34_Witness ==
    /\ sorter.pc = "inner"
    /\ sorter.labels_set = Labels
    /\ Len(match_log) = 3
    /\ \A l \in Labels :
          \E p \in InDir(folders, OutDir(l)) : folders[p] = InitialDisk[sorter.cur]
    /\ sorter.cur \notin DOMAIN folders

(***************************************************************************)
(* Claims about the byte accounting of the thumbnail cache.                *)
(***************************************************************************)
\* the estimates stored with the entries of the cache, added up entry by
\* entry
RECURSIVE StoredBytes(_)
StoredBytes(n) == IF n = 0 THEN 0 ELSE StoredBytes(n - 1) + thumb_cache[n].est

\* C36: after any sequence of load_thumb hits and misses, evictions, purges
\* on a zoom change and clear_thumb_cache, _thumb_cache_est_bytes is the
\* sum of the estimates stored with the entries of the cache, 0 when the
\* cache is empty.
C36_ByteAccountingExact ==
    /\ thumb_cache_est_bytes = StoredBytes(Len(thumb_cache))
    /\ thumb_cache = <<>> => thumb_cache_est_bytes = 0

\* a miss has evicted an entry and left entries of two sizes in the cache
C36_Witness ==
    /\ lastThumbOp.op = "miss"
    /\ lastThumbOp.evicted # <<>>
    /\ \E i, j \in 1 .. Len(thumb_cache) : thumb_cache[i].est # thumb_cache[j].est

(***************************************************************************)
(* Claims about what the sort does to the photos of the inbox.             *)
(***************************************************************************)
\* the photo that was at inbox path p when the sort started is at p, in
\* unmatched_dir or in a label folder
Kept(p) ==
    \E q \in DOMAIN folders :
        /\ folders[q] = InitialDisk[p]
        /\ q = p \/ q.dir = UnmatchedDir \/ \E l \in Labels : q.dir = OutDir(l)

\* C37: the sort never loses a photo: every image that was in the inbox when
\* the sort started is, whenever the worker is not in the middle of that
\* file (before it, after it was distributed or sent to unmatched, after a
\* failure on it, after a stop), at its inbox path, in unmatched_dir or in
\* a label folder.
C37_NoPhotoLost == \A p \in InboxPaths : p # InFlight => Kept(p)

\* the sort has ended with the inbox empty: the two photos that share a
\* file name are both in Alice's folder, next to the one that was there
C37_Witness ==
    /\ sorter.pc = "done"
    /\ InboxPaths \cap DOMAIN folders = {}
    /\ \A p \in InboxPaths :
          \E q \in InDir(folders, OutDir("Alice")) : folders[q] = InitialDisk[p]
    /\ \E q \in InDir(folders, OutDir("Alice")) : folders[q] = "older"

(***************************************************************************)
(* Claims about the pending debounce timer.                                *)
(***************************************************************************)
\* the handle the scheduler keeps of its pending timer, 0 for none:
\* _rebuild_after_id, and _rebuild_pending in ImageRangerGUI.py
PendingHandle == IF variant = "labeler" THEN rebuild_after_id ELSE rebuild_pending

\* C38: at most one debounce timer is pending at any time, and it is the
\* one the scheduler holds the handle of; a request leaves exactly its own
\* new timer pending, the earlier one is cancelled; the firing timer clears
\* the handle; and a job is started only by the timer that was pending or
\* by a direct call, never by a cancelled timer.
C38_OneTimerPending ==
    /\ [](/\ Cardinality(afterQueue) <= 1
          /\ \A t \in afterQueue : t.id = PendingHandle)
    /\ [][/\ (afterQueue' # afterQueue /\ afterQueue' # {})
               => (/\ Cardinality(afterQueue') = 1
                   /\ afterQueue' \cap afterQueue = {}
                   /\ burstJobs' = burstJobs \/ burstJobs' = <<>>)
          /\ TimerFires => (PendingHandle' = 0 /\ afterQueue' = {})
          /\ jobs' \ jobs # {}
               => \/ afterQueue' = afterQueue
                  \/ /\ TimerFires
                     /\ \A t \in afterQueue : t.id = PendingHandle]_vars

\* a third request has replaced the timer of the second, which had
\* replaced the timer of the first: one timer is pending and no job of the
\* burst has started
C38_Witness ==
    /\ Len(burst) = 3
    /\ Cardinality(afterQueue) = 1
    /\ burstJobs = <<>>
    /\ variant = "ranger"

====
